---- MODULE Spec2Model ----
(***************************************************************************)
(* A model of the rule-based file organizer of src/src/file_organizer:     *)
(* the rule set (organizer_config.py) and the classify-and-move engine     *)
(* (file_organizer.py).                                                    *)
(*                                                                         *)
(* Strings are sequences of one-character strings, so that strip, lower,   *)
(* suffix and stem are computed the way the code computes them.  A byte    *)
(* that is not printable is written as a token ("x89" is the byte 0x89).   *)
(***************************************************************************)
EXTENDS Integers, Sequences, FiniteSets, TLC

VARIABLES
    op,     \* which entry point of the program the behaviour exercises
    arg,    \* the argument of a pure function under check
    out,    \* <<>> before the call, <<result>> after it
    fs,     \* the filesystem under root
    fs0,    \* the filesystem when organize was called
    fsPre,  \* the filesystem when the current (or last) entry was taken up
    config, \* the OrganizerConfig of the FileOrganizer
    env,    \* what the platform decides: root_ok, sidecar_order, dir_clash,
            \* and how many errors it may raise
    pc,     \* the position of organize
    todo,   \* the entries of the current listing not yet processed
    cur,    \* the Mover call in progress
    last,   \* the result of the last completed call (NoLast during a call)
    failed, \* the paths whose move was reported as failed
    faults  \* the number of errors the operating system has raised so far

pureVars == <<op, arg, out>>

orgVars == <<fs, fs0, fsPre, config, env, pc, todo, cur, last, failed, faults>>

vars == <<op, arg, out, fs, fs0, fsPre, config, env, pc, todo, cur, last, failed, faults>>

(***************************************************************************)
(* Bounds of the model.                                                    *)
(***************************************************************************)
MaxLen == 4
MaxDirs == 2
MaxRules == 2
MaxPatterns == 2
MaxHdr == 3
MaxRoot == 3
MaxPre == 1
MaxFaults == 1
OrgMaxMoveRetries == 2
OrgMaxCollisionAttempts == 2
OrgRetryDelay == 3
MaxMoverRoot == 2
MaxMoverFaults == 2

(***************************************************************************)
(* String helpers (Python str methods used by the code).                   *)
(***************************************************************************)
RECURSIVE LStrip(_, _)
LStrip(s, cs) ==
    IF s # <<>> /\ Head(s) \in cs THEN LStrip(Tail(s), cs) ELSE s

RECURSIVE RStrip(_, _)
RStrip(s, cs) ==
    IF s # <<>> /\ s[Len(s)] \in cs THEN RStrip(SubSeq(s, 1, Len(s) - 1), cs) ELSE s

\* str.strip(chars)
Strip(s, cs) == RStrip(LStrip(s, cs), cs)

LowerChar(c) ==
    CASE c = "A" -> "a"
      [] c = "G" -> "g"
      [] c = "J" -> "j"
      [] c = "P" -> "p"
      [] c = "X" -> "x"
      [] c = "M" -> "m"
      [] c = "N" -> "n"
      [] OTHER -> c

UpperChars == {"A", "G", "J", "P", "X", "M", "N"}

\* str.lower()
Lower(s) == [i \in 1..Len(s) |-> LowerChar(s[i])]

\* All strings over alphabet cs of length at most n.
StringsUpTo(cs, n) == UNION {[1..k -> cs] : k \in 0..n}

(***************************************************************************)
(* OrganizerConfig._sanitize_ext                                           *)
(***************************************************************************)
SanitizeExtNoStrip(ext) ==
    LET e == Lower(ext) IN IF e # <<>> THEN <<".">> \o e ELSE <<>>

SanitizeExtNoLower(ext) ==
    LET e == Strip(ext, {" ", "."}) IN IF e # <<>> THEN <<".">> \o e ELSE <<>>

SanitizeExt(ext) ==
    LET e == Lower(Strip(ext, {" ", "."}))
    IN  IF e # <<>> THEN <<".">> \o e ELSE <<>>

(***************************************************************************)
(* Strings used by the rule sets and the directory entries of the model.   *)
(***************************************************************************)
DEFAULT_DIR_NAME == <<"M", "i", "s", "c">>
SIGNATURE_READ_SIZE == 32
DEFAULT_MAX_MOVE_RETRIES == 3
\* Delays are counted in tenths of a second: the default is 0.1 s.
DEFAULT_RETRY_DELAY_SECONDS == 1
DEFAULT_MAX_COLLISION_ATTEMPTS == 99

S_Images == <<"I", "m", "g">>
S_Misc == DEFAULT_DIR_NAME
S_Raw == <<"R", "a", "w">>
S_ImagesRaw == <<"I", "m", "g", "/", "R", "a", "w">>
S_Nope == <<"N", "o">>

Range(f) == {f[i] : i \in DOMAIN f}

(***************************************************************************)
(* Signature patterns.  A raw pattern is the human-authored string of the  *)
(* configuration, one token per character or escape sequence:              *)
(*   "\\x89"   the escape \x89, unescaped to the byte 0x89 (token "x89")   *)
(*   "\\x8"    a truncated \x escape: unicode_escape cannot decode it      *)
(*   "\\u20ac" a \u escape: decodes to a character above 255, which      *)
(*             latin-1 cannot encode                                       *)
(*   ".*?"     the lazy wildcard                                           *)
(*   "("       an unbalanced parenthesis: not a regular expression         *)
(***************************************************************************)
UnescapeToken(t) ==
    CASE t = "\\x89" -> "x89"
      [] t = "\\u20ac" -> "u20ac"
      [] OTHER -> t

\* raw_pattern.encode("utf-8").decode("unicode_escape") raises UnicodeError
UnescapeRaises(raw) == \E i \in 1..Len(raw) : raw[i] = "\\x8"

Unescape(raw) == [i \in 1..Len(raw) |-> UnescapeToken(raw[i])]

\* unescaped.encode("latin-1") raises UnicodeError
Latin1Raises(pat) == \E i \in 1..Len(pat) : pat[i] = "u20ac"

\* re.compile rejects the pattern
InvalidRegex(pat) == \E i \in 1..Len(pat) : pat[i] = "("

WordChars ==
    {"a", "b", "g", "j", "m", "n", "p", "x", "A", "G", "J", "M", "N", "P", "X", "_"}

\* f"g_{_PYTHON_IDENTIFIER_RE.sub('_', sanitized_ext)}"
GroupName(ext) ==
    <<"g", "_">> \o [i \in 1..Len(ext) |-> IF ext[i] \in WordChars THEN ext[i] ELSE "_"]

(***************************************************************************)
(* OrganizerConfig.__init__: the validated extension map.  `items` is the  *)
(* input mapping in iteration order, a sequence of <<ext, dst_dir>>.       *)
(***************************************************************************)
RECURSIVE ValidateRulesAnyTarget(_, _, _)
ValidateRulesAnyTarget(items, dirs, m) ==
    IF items = <<>> THEN m
    ELSE LET s == SanitizeExt(items[1][1])
         IN  ValidateRulesAnyTarget(Tail(items), dirs,
                IF s = <<>> THEN m ELSE (s :> items[1][2]) @@ m)

RECURSIVE ValidateRules(_, _, _)
ValidateRules(items, dirs, m) ==
    IF items = <<>> THEN m
    ELSE LET s == SanitizeExt(items[1][1])
             dst == items[1][2]
         IN  ValidateRules(Tail(items), dirs,
                IF s = <<>> THEN m
                ELSE IF dst \in dirs THEN (s :> dst) @@ m
                ELSE m)

(***************************************************************************)
(* OrganizerConfig._compile_signature_re.  The result is                   *)
(*   [raised, groups, name_to_ext]: `groups` is the alternation in order,  *)
(* each [name, pat]; an empty `groups` is the None result.  re.compile of  *)
(* the joined groups (outside the try block) raises on an invalid          *)
(* sub-pattern and on a group name defined twice.                          *)
(***************************************************************************)
\* A variant of the loop that does not test whether the extension has a rule.
RECURSIVE CompileGroupsAnyExt(_, _, _)
CompileGroupsAnyExt(validated_ext, items, acc) ==
    IF items = <<>> THEN acc
    ELSE LET s == SanitizeExt(items[1][1])
             raw == items[1][2]
             name == GroupName(s)
             acc2 ==
                IF s = <<>> THEN acc
                ELSE IF UnescapeRaises(raw) THEN acc
                ELSE IF Latin1Raises(Unescape(raw)) THEN acc
                ELSE [groups |-> Append(acc.groups, [name |-> name, pat |-> Unescape(raw)]),
                      name_to_ext |-> (name :> s) @@ acc.name_to_ext]
         IN  CompileGroupsAnyExt(validated_ext, Tail(items), acc2)

RECURSIVE CompileGroups(_, _, _)
CompileGroups(validated_ext, items, acc) ==
    IF items = <<>> THEN acc
    ELSE LET s == SanitizeExt(items[1][1])
             raw == items[1][2]
             name == GroupName(s)
             acc2 ==
                IF s = <<>> THEN acc
                ELSE IF s \notin validated_ext THEN acc
                ELSE IF UnescapeRaises(raw) THEN acc
                ELSE IF Latin1Raises(Unescape(raw)) THEN acc
                ELSE [groups |-> Append(acc.groups, [name |-> name, pat |-> Unescape(raw)]),
                      name_to_ext |-> (name :> s) @@ acc.name_to_ext]
         IN  CompileGroups(validated_ext, Tail(items), acc2)

CompileSignatureRe(validated_ext, ext_to_re) ==
    LET r == CompileGroups(validated_ext, ext_to_re, [groups |-> <<>>, name_to_ext |-> <<>>])
        g == r.groups
    IN  [raised |-> /\ g # <<>>
                    /\ \/ \E i \in 1..Len(g) : InvalidRegex(g[i].pat)
                       \/ \E i, j \in 1..Len(g) : i # j /\ g[i].name = g[j].name,
         groups |-> g,
         name_to_ext |-> r.name_to_ext]

(***************************************************************************)
(* OrganizerConfig.__init__.  status "raised": the constructor raised and  *)
(* no rule set exists.  has_re is `signatures_re is not None`.             *)
(***************************************************************************)
OrganizerConfig(dir_names, ext_to_dir, ext_to_re, tun) ==
    LET unique_dir_names == {DEFAULT_DIR_NAME} \cup Range(dir_names)
        validated_map == ValidateRules(ext_to_dir, unique_dir_names, <<>>)
        c == CompileSignatureRe(DOMAIN validated_map, ext_to_re)
        compiled == ext_to_re # <<>> /\ c.groups # <<>>
    IN  [status |-> IF ext_to_re # <<>> /\ c.raised THEN "raised" ELSE "ok",
         dir_names |-> unique_dir_names,
         ext_to_dir |-> validated_map,
         has_re |-> compiled,
         signatures_re |-> IF compiled THEN c.groups ELSE <<>>,
         name_to_ext |-> IF compiled THEN c.name_to_ext ELSE <<>>,
         max_move_retries |-> tun.max_move_retries,
         retry_delay_seconds |-> tun.retry_delay_seconds,
         max_collision_attempts |-> tun.max_collision_attempts,
         dry_run |-> tun.dry_run]

(***************************************************************************)
(* pathlib names: suffix, stem, with_suffix, with_stem (Python 3.14, where *)
(* suffix is os.path.splitext of the name: the part from the last dot,     *)
(* unless only dots precede it).                                           *)
(***************************************************************************)
LastDot(name) ==
    LET I == {i \in 1..Len(name) : name[i] = "."}
    IN  IF I = {} THEN 0 ELSE CHOOSE i \in I : \A j \in I : j <= i

Suffix(name) ==
    LET d == LastDot(name)
    IN  IF d = 0 \/ (\A i \in 1..(d - 1) : name[i] = ".") THEN <<>>
        ELSE SubSeq(name, d, Len(name))

Stem(name) == SubSeq(name, 1, Len(name) - Len(Suffix(name)))

WithSuffix(name, ext) == Stem(name) \o ext

WithStem(name, stem) == stem \o Suffix(name)

EndsWith(s, t) ==
    Len(s) >= Len(t) /\ SubSeq(s, Len(s) - Len(t) + 1, Len(s)) = t

IGNORED_NAMES ==
    {<<".", "D", "S", "_", "S", "t", "o", "r", "e">>,
     <<".", "l", "o", "c", "a", "l", "i", "z", "e", "d">>}

SIDECAR_EXTENSIONS == {<<".", "a", "a", "e">>, <<".", "x", "m", "p">>}

S_download == <<"d", "o", "w", "n", "l", "o", "a", "d">>

(***************************************************************************)
(* re.Pattern.match of the compiled alternation on a header.  A pattern is *)
(* a sequence of literal tokens and lazy wildcards ".*?" ('.' matches any  *)
(* byte but the newline, written "nl").  The result is the index of the    *)
(* first alternative that matches at offset 0, or 0.                       *)
(***************************************************************************)
RECURSIVE MatchesAt0(_, _)
MatchesAt0(pat, h) ==
    IF pat = <<>> THEN TRUE
    ELSE IF Head(pat) = ".*?"
         THEN \E k \in 0..Len(h) :
                /\ \A i \in 1..k : h[i] # "nl"
                /\ MatchesAt0(Tail(pat), SubSeq(h, k + 1, Len(h)))
         ELSE h # <<>> /\ Head(h) = Head(pat) /\ MatchesAt0(Tail(pat), Tail(h))

\* The alternation takes the first alternative that matches.
FirstGroup(I) == IF I = {} THEN 0 ELSE CHOOSE i \in I : \A j \in I : i <= j

\* A variant that matches anywhere in the header, as re.Pattern.search does.
ReSearch(groups, header) ==
    FirstGroup({i \in 1..Len(groups) :
                   \E k \in 0..Len(header) :
                       MatchesAt0(groups[i].pat, SubSeq(header, k + 1, Len(header)))})

ReMatch(groups, header) ==
    FirstGroup({i \in 1..Len(groups) : MatchesAt0(groups[i].pat, header)})

\* f.read(SIGNATURE_READ_SIZE)
ReadHeader(content) ==
    SubSeq(content, 1, IF Len(content) < SIGNATURE_READ_SIZE
                       THEN Len(content) ELSE SIGNATURE_READ_SIZE)

(***************************************************************************)
(* FileOrganizer._get_dst_dir_name_by_signature.  `open_fails`: file.open  *)
(* or f.read raises OSError.  opened: the file was opened; raised: an      *)
(* exception leaves the method (KeyError of name_to_ext).                  *)
(***************************************************************************)
Get(m, k, default) == IF k \in DOMAIN m THEN m[k] ELSE default

\* A variant that does not test whether a matcher exists.
GetDstDirNameBySignatureAlwaysOpens(cfg, content, open_fails) ==
    IF open_fails
    THEN [dir |-> DEFAULT_DIR_NAME, opened |-> FALSE, raised |-> FALSE]
    ELSE LET header == ReadHeader(content)
             m == ReMatch(cfg.signatures_re, header)
         IN  IF header = <<>> \/ m = 0
             THEN [dir |-> DEFAULT_DIR_NAME, opened |-> TRUE, raised |-> FALSE]
             ELSE [dir |-> Get(cfg.ext_to_dir, cfg.name_to_ext[cfg.signatures_re[m].name],
                               DEFAULT_DIR_NAME),
                   opened |-> TRUE, raised |-> FALSE]

GetDstDirNameBySignature(cfg, content, open_fails) ==
    IF ~cfg.has_re
    THEN [dir |-> DEFAULT_DIR_NAME, opened |-> FALSE, raised |-> FALSE]
    ELSE IF open_fails
    THEN [dir |-> DEFAULT_DIR_NAME, opened |-> FALSE, raised |-> FALSE]
    ELSE LET header == ReadHeader(content)
             m == ReMatch(cfg.signatures_re, header)
         IN  IF header = <<>> \/ m = 0
             THEN [dir |-> DEFAULT_DIR_NAME, opened |-> TRUE, raised |-> FALSE]
             ELSE LET lastgroup == cfg.signatures_re[m].name
                  IN  IF lastgroup \notin DOMAIN cfg.name_to_ext
                      THEN [dir |-> <<>>, opened |-> TRUE, raised |-> TRUE]
                      ELSE [dir |-> Get(cfg.ext_to_dir, cfg.name_to_ext[lastgroup],
                                        DEFAULT_DIR_NAME),
                            opened |-> TRUE, raised |-> FALSE]

(***************************************************************************)
(* FileOrganizer._get_dst_dir_name.  An entry is [name, kind, content]     *)
(* with kind one of "file", "dir", "symlink", "fifo".  dir = <<>> is the   *)
(* None result (the entry is not to be moved by the main pass).            *)
(***************************************************************************)
Decision(d) == [dir |-> d, opened |-> FALSE, raised |-> FALSE]

GetDstDirName(cfg, entry, open_fails) ==
    LET name == entry.name
        ext == Lower(Suffix(entry.name))
    IN  IF name \in IGNORED_NAMES THEN Decision(<<>>)
        ELSE IF ext \in SIDECAR_EXTENSIONS THEN Decision(<<>>)
        ELSE IF entry.kind = "symlink" THEN Decision(<<>>)
        ELSE IF entry.kind = "dir"
             THEN IF name \in cfg.dir_names THEN Decision(<<>>)
                  ELSE IF EndsWith(name, S_download) THEN Decision(<<>>)
                  ELSE Decision(DEFAULT_DIR_NAME)
        ELSE IF entry.kind # "file" THEN Decision(<<>>)
        ELSE IF ext = <<>>
             THEN GetDstDirNameBySignature(cfg, entry.content, open_fails)
        ELSE IF ext \in DOMAIN cfg.ext_to_dir THEN Decision(cfg.ext_to_dir[ext])
        ELSE Decision(DEFAULT_DIR_NAME)

(***************************************************************************)
(* The filesystem under root: a function from paths (sequences of names,   *)
(* relative to root) to entries [kind, id, content].  `id` names the       *)
(* object, so that a replaced entry differs from the one that was there.   *)
(***************************************************************************)
RECURSIVE SplitPath(_)
SplitPath(s) ==
    LET I == {i \in 1..Len(s) : s[i] = "/"}
    IN  IF I = {} THEN <<s>>
        ELSE LET i == CHOOSE i \in I : \A j \in I : i <= j
             IN  <<SubSeq(s, 1, i - 1)>> \o SplitPath(SubSeq(s, i + 1, Len(s)))

Parent(path) == SubSeq(path, 1, Len(path) - 1)

Name(path) == path[Len(path)]

\* path / name
Join(dir, name) == Append(dir, name)

IsUnder(dir, path) == Len(dir) < Len(path) /\ SubSeq(path, 1, Len(dir)) = dir

HasChildren(f, dir) == \E q \in DOMAIN f : IsUnder(dir, q)

\* Path.info.exists(): follows symbolic links, so a dangling link is absent.
InfoExists(f, path) ==
    path \in DOMAIN f /\ (f[path].kind = "symlink" => f[path].content = <<"live">>)

\* os.scandir(root): the direct children of root with their cached type.
IterDir(f) == {[name |-> q[1], kind |-> f[q].kind] : q \in {q \in DOMAIN f : Len(q) = 1}}

\* Path.mkdir(parents=True, exist_ok=True) on the prefixes of `path` from the
\* k-th on: a prefix that exists and is no directory raises.
RECURSIVE MkdirP(_, _, _)
MkdirP(f, path, k) ==
    IF k > Len(path) THEN [err |-> "", fs |-> f]
    ELSE LET pre == SubSeq(path, 1, k)
         IN  IF pre \in DOMAIN f
             THEN IF f[pre].kind = "dir" THEN MkdirP(f, path, k + 1)
                  ELSE [err |-> IF k = Len(path) THEN "EEXIST" ELSE "ENOTDIR", fs |-> f]
             ELSE MkdirP((pre :> [kind |-> "dir", id |-> "mkdir", content |-> <<>>]) @@ f,
                         path, k + 1)

\* rename(2) once it is decided to succeed: the subtree at src is at dst, and
\* what was at dst (a non-directory, or an empty directory) is gone.
Rename(f, src, dst) ==
    LET moved == {q \in DOMAIN f : q = src \/ IsUnder(src, q)}
        to(q) == dst \o SubSeq(q, Len(src) + 1, Len(q))
        dom == ((DOMAIN f \ moved) \ {dst}) \cup {to(q) : q \in moved}
    IN  [q \in dom |->
            IF q = dst \/ IsUnder(dst, q)
            THEN f[src \o SubSeq(q, Len(dst) + 1, Len(q))]
            ELSE f[q]]

\* os.replace(src, dst).  dir_clash is the errno of renaming a directory
\* onto a non-empty directory: POSIX allows EEXIST and ENOTEMPTY.
OsReplace(f, src, dst, dir_clash) ==
    LET fail(e) == [err |-> e, fs |-> f]
    IN  IF src \notin DOMAIN f THEN fail("ENOENT")
        ELSE IF Len(dst) > 1 /\ Parent(dst) \notin DOMAIN f THEN fail("ENOENT")
        ELSE IF Len(dst) > 1 /\ f[Parent(dst)].kind # "dir" THEN fail("ENOTDIR")
        ELSE IF dst \in DOMAIN f
             THEN IF f[src].kind = "dir"
                  THEN IF f[dst].kind # "dir" THEN fail("ENOTDIR")
                       ELSE IF HasChildren(f, dst) THEN fail(dir_clash)
                       ELSE [err |-> "", fs |-> Rename(f, src, dst)]
                  ELSE IF f[dst].kind = "dir" THEN fail("EISDIR")
                       ELSE [err |-> "", fs |-> Rename(f, src, dst)]
        ELSE [err |-> "", fs |-> Rename(f, src, dst)]

\* A move that is not atomic: the source is unlinked before the placement is
\* confirmed, so an error of the operating system loses it.
OsMoveUnlinksFirst(f, src, dst, dir_clash, inj) ==
    IF inj # ""
    THEN [err |-> inj,
          fs |-> [q \in {r \in DOMAIN f : r # src /\ ~IsUnder(src, r)} |-> f[q]]]
    ELSE OsReplace(f, src, dst, dir_clash)

\* Path.move(target) within one filesystem is os.replace.  `inj` is an error
\* the operating system raises instead ("" for none).
OsMove(f, src, dst, dir_clash, inj) ==
    IF inj # "" THEN [err |-> inj, fs |-> f] ELSE OsReplace(f, src, dst, dir_clash)

TRANSIENT_ERRNO_CODES == {"EAGAIN", "EBUSY", "ETIMEDOUT"}

\* The exception class Python raises for an errno.
ExcClass(e) ==
    CASE e = "EACCES" -> "PermissionError"
      [] e = "EEXIST" -> "FileExistsError"
      [] OTHER -> "OSError"

(***************************************************************************)
(* The state of organize.                                                  *)
(***************************************************************************)
NoPath == <<>>

NoCall ==
    [ctx |-> "", src |-> NoPath, dst_dir |-> NoPath, n |-> 0, p |-> NoPath,
     side |-> NoPath, side_found |-> FALSE, tries |-> 0, side_tries |-> 0,
     slept |-> <<>>, errs |-> <<>>]

NoLast ==
    [fn |-> "", ctx |-> "", src |-> NoPath, dst_dir |-> NoPath, p |-> NoPath,
     s |-> NoPath, side |-> NoPath, side_found |-> FALSE, tries |-> 0,
     side_tries |-> 0, slept |-> <<>>, errs |-> <<>>]

\* The organizer is not in use (the behaviour exercises a pure function).
OrgIdle ==
    /\ fs = <<>>
    /\ fs0 = <<>>
    /\ fsPre = <<>>
    /\ config = <<>>
    /\ env = <<>>
    /\ pc = "idle"
    /\ todo = {}
    /\ cur = NoCall
    /\ last = NoLast
    /\ failed = {}
    /\ faults = 0

(***************************************************************************)
(* FileOrganizer._generate_unique_destination_path: the n-th candidate is  *)
(* stem_N with N the counter zero-padded to the number of digits of        *)
(* max_collision_attempts.                                                 *)
(***************************************************************************)
DigitChars == <<"0", "1", "2", "3", "4", "5", "6", "7", "8", "9">>

RECURSIVE Str(_)
Str(n) == IF n < 10 THEN <<DigitChars[n + 1]>>
          ELSE Str(n \div 10) \o <<DigitChars[(n % 10) + 1]>>

RECURSIVE ZeroPad(_, _)
ZeroPad(digits, width) ==
    IF Len(digits) >= width THEN digits ELSE ZeroPad(<<"0">> \o digits, width)

GenerateUniqueDestinationPath(cfg, path, n) ==
    LET stem == Stem(Name(path))
        padding == Len(Str(cfg.max_collision_attempts))
    IN  Join(Parent(path),
             WithStem(Name(path), stem \o <<"_">> \o ZeroPad(Str(n), padding)))

\* A variant of the delay factor that never grows.
NoBackoff(n) == 1

RECURSIVE Pow2(_)
Pow2(n) == IF n = 0 THEN 1 ELSE 2 * Pow2(n - 1)

(***************************************************************************)
(* FileOrganizer._create_dirs: mkdir(parents=True, exist_ok=True) for each *)
(* name of dir_names, in the iteration order `order` of the frozenset.  An *)
(* error of a mkdir leaves the method.                                     *)
(***************************************************************************)
RECURSIVE MkDirs(_, _, _)
MkDirs(f, order, k) ==
    IF k > Len(order) THEN [err |-> "", fs |-> f]
    ELSE LET r == MkdirP(f, SplitPath(order[k]), 1)
         IN  IF r.err # "" THEN r ELSE MkDirs(r.fs, order, k + 1)

\* _create_dirs without its dry-run return.
CreateDirsAlways(cfg, f, order) == MkDirs(f, order, 1)

CreateDirs(cfg, f, order) ==
    IF cfg.dry_run THEN [err |-> "", fs |-> f] ELSE MkDirs(f, order, 1)

Orders(S) == {o \in [1..Cardinality(S) -> S] : Range(o) = S}

(***************************************************************************)
(* How a call of the Mover ends.  `call` is the call in progress: ctx is   *)
(* "dir" (_move_to_dir from _process_dir_entry), "file" (_move_to_dir from *)
(* _move_file_and_sidecar), "sidecar" (_retry_move_to_dir from the sidecar *)
(* step) or "sweep" (_move_to_dir from the second loop of organize).       *)
(***************************************************************************)
\* The errnos raised so far in a call, with the one of the last attempt.
Raised(errs, errno) == IF errno = "" THEN errs ELSE Append(errs, errno)

Outcome(f, next_pc, call, result, failures) ==
    [fs |-> f, pc |-> next_pc, cur |-> call, last |-> result,
     failed |-> failed \cup failures]

\* _move_file_and_sidecar returns (p, s) to _process_dir_entry.
FileAndSidecarReturns(f, call, p, s) ==
    Outcome(f, "main", NoCall,
            [fn |-> "_move_file_and_sidecar", ctx |-> call.ctx, src |-> call.src,
             dst_dir |-> call.dst_dir, p |-> p, s |-> s, side |-> call.side,
             side_found |-> call.side_found, tries |-> call.tries,
             side_tries |-> call.side_tries, slept |-> call.slept,
             errs |-> call.errs],
            (IF p = NoPath THEN {call.src} ELSE {})
                \cup (IF p # NoPath /\ s = NoPath THEN {call.side} ELSE {}))

\* A variant of the early return that moves a sidecar of the failed primary.
PrimaryFailedMovesSidecar(f, call) ==
    LET sides == {q \in DOMAIN f :
                     /\ Len(q) = 1
                     /\ Stem(Name(q)) = Stem(Name(call.src))
                     /\ Lower(Suffix(Name(q))) \in SIDECAR_EXTENSIONS}
    IN  IF sides = {} THEN FileAndSidecarReturns(f, call, NoPath, NoPath)
        ELSE LET side == CHOOSE q \in sides : TRUE
             IN  FileAndSidecarReturns(
                     OsReplace(f, side, Join(call.dst_dir, Name(side)), "ENOTEMPTY").fs,
                     call, NoPath, NoPath)

\* _move_file_and_sidecar when _move_to_dir returned None for the primary.
PrimaryFailed(f, call) == FileAndSidecarReturns(f, call, NoPath, NoPath)

\* _move_to_dir or _retry_move_to_dir returns `ret` (NoPath for None).
Returns(f, call, ret) ==
    CASE call.ctx = "file" /\ ret # NoPath ->
            Outcome(f, "sidecar", [call EXCEPT !.p = ret], NoLast, {})
      [] call.ctx = "file" /\ ret = NoPath -> PrimaryFailed(f, call)
      [] call.ctx = "sidecar" ->
            FileAndSidecarReturns(f, call, call.p, ret)
      [] OTHER ->
            Outcome(f, IF call.ctx = "sweep" THEN "sweep" ELSE "main", NoCall,
                    [fn |-> "_move_to_dir", ctx |-> call.ctx, src |-> call.src,
                     dst_dir |-> call.dst_dir, p |-> ret, s |-> NoPath,
                     side |-> NoPath, side_found |-> FALSE, tries |-> call.tries,
                     side_tries |-> 0, slept |-> call.slept, errs |-> call.errs],
                    IF ret = NoPath THEN {call.src} ELSE {})

\* An exception leaves _move_to_dir, hence organize.
Raises(f, call) ==
    Outcome(f, "raised", NoCall,
            [fn |-> "raise", ctx |-> call.ctx, src |-> call.src,
             dst_dir |-> call.dst_dir, p |-> NoPath, s |-> NoPath,
             side |-> call.side, side_found |-> call.side_found,
             tries |-> call.tries, side_tries |-> call.side_tries,
             slept |-> call.slept, errs |-> call.errs],
            {})

(***************************************************************************)
(* FileOrganizer._retry_move_to_dir, up to its loop: a non-transient errno *)
(* returns None, and so does a loop of zero iterations.                    *)
(***************************************************************************)
RetryMoveToDir(cfg, f, call, errno) ==
    IF errno \notin TRANSIENT_ERRNO_CODES THEN Returns(f, call, NoPath)
    ELSE IF cfg.max_move_retries = 0 THEN Returns(f, call, NoPath)
    ELSE Outcome(f, "retry", [call EXCEPT !.n = 0], NoLast, {})

(***************************************************************************)
(* FileOrganizer._move_to_dir, up to its first handler: the dry run        *)
(* returns the target without touching anything; FileExistsError enters    *)
(* the collision loop, PermissionError returns None, any other OSError     *)
(* goes to _retry_move_to_dir.                                             *)
(***************************************************************************)
MoveToDir(cfg, f, dir_clash, call, inj) ==
    LET target == Join(call.dst_dir, Name(call.src))
    IN  IF cfg.dry_run THEN Returns(f, call, target)
        ELSE LET r == OsMove(f, call.src, target, dir_clash, inj)
                 c == [call EXCEPT !.tries = 1, !.errs = Raised(@, r.err)]
             IN  IF r.err = "" THEN Returns(r.fs, c, target)
                 ELSE IF ExcClass(r.err) = "FileExistsError"
                 THEN IF cfg.max_collision_attempts = 0
                      THEN Returns(r.fs, c, NoPath)
                      ELSE Outcome(r.fs, "collide", [c EXCEPT !.n = 1], NoLast, {})
                 ELSE IF ExcClass(r.err) = "PermissionError"
                 THEN Returns(r.fs, c, NoPath)
                 ELSE RetryMoveToDir(cfg, r.fs, c, r.err)

\* One iteration of the collision loop of _move_to_dir (islice of the
\* candidates): FileExistsError continues, any other exception leaves.
CollisionAttempt(cfg, f, dir_clash, call, inj) ==
    LET dst_path == GenerateUniqueDestinationPath(
                        cfg, Join(call.dst_dir, Name(call.src)), call.n)
        r == OsMove(f, call.src, dst_path, dir_clash, inj)
        c == [call EXCEPT !.tries = @ + 1, !.errs = Raised(@, r.err)]
    IN  IF r.err = "" THEN Returns(r.fs, c, dst_path)
        ELSE IF ExcClass(r.err) = "FileExistsError"
        THEN IF call.n >= cfg.max_collision_attempts
             THEN Returns(r.fs, c, NoPath)
             ELSE Outcome(r.fs, "collide", [c EXCEPT !.n = @ + 1], NoLast, {})
        ELSE Raises(r.fs, c)

\* A variant of the retry loop that goes on for as long as the move fails.
RetryAttemptUnbounded(cfg, f, dir_clash, call, inj) ==
    LET target == Join(call.dst_dir, Name(call.src))
        r == OsMove(f, call.src, target, dir_clash, inj)
        delay == cfg.retry_delay_seconds * Pow2(call.n)
        c == [call EXCEPT !.tries = @ + 1, !.slept = Append(@, delay),
                          !.errs = Raised(@, r.err)]
    IN  IF r.err = "" THEN Returns(r.fs, c, target)
        ELSE Outcome(r.fs, "retry", [c EXCEPT !.n = @ + 1], NoLast, {})

\* One iteration of the loop of _retry_move_to_dir: sleep, move_into, and
\* continue on any OSError.
RetryAttempt(cfg, f, dir_clash, call, inj) ==
    LET target == Join(call.dst_dir, Name(call.src))
        r == OsMove(f, call.src, target, dir_clash, inj)
        delay == cfg.retry_delay_seconds * Pow2(call.n)
        c == [call EXCEPT !.tries = @ + 1, !.slept = Append(@, delay),
                          !.errs = Raised(@, r.err)]
    IN  IF r.err = "" THEN Returns(r.fs, c, target)
        ELSE IF call.n + 1 >= cfg.max_move_retries
        THEN Returns(r.fs, c, NoPath)
        ELSE Outcome(r.fs, "retry", [c EXCEPT !.n = @ + 1], NoLast, {})

(***************************************************************************)
(* FileOrganizer._move_file_and_sidecar after the primary has moved to     *)
(* call.p.  The loop over _SIDECAR_EXTENSIONS (in the iteration order      *)
(* `order` of the frozenset) stops at the first candidate that exists and  *)
(* otherwise leaves the last candidate in src_sidecar.                     *)
(***************************************************************************)
RECURSIVE SidecarChoice(_, _, _, _)
SidecarChoice(f, src, order, k) ==
    LET src_sidecar == Join(Parent(src), WithSuffix(Name(src), order[k]))
    IN  IF InfoExists(f, src_sidecar) \/ k = Len(order)
        THEN [ext |-> order[k], src_sidecar |-> src_sidecar,
              found |-> InfoExists(f, src_sidecar)]
        ELSE SidecarChoice(f, src, order, k + 1)

\* A variant of the sidecar step that reports the destination and moves nothing.
MoveSidecarReportOnly(cfg, f, order, dir_clash, call, inj) ==
    LET ch == SidecarChoice(f, call.src, order, 1)
        c == [call EXCEPT !.ctx = "sidecar", !.side = ch.src_sidecar,
                          !.side_found = ch.found, !.side_tries = 1]
    IN  FileAndSidecarReturns(f, c, call.p,
                              Join(Parent(call.p), WithSuffix(Name(call.p), ch.ext)))

\* A variant of the sidecar step that puts the primary back when the sidecar
\* cannot be moved.
MoveSidecarUndoesPrimary(cfg, f, order, dir_clash, call, inj) ==
    LET ch == SidecarChoice(f, call.src, order, 1)
        sidecar_dst == Join(Parent(call.p), WithSuffix(Name(call.p), ch.ext))
        c == [call EXCEPT !.ctx = "sidecar", !.side = ch.src_sidecar,
                          !.side_found = ch.found]
    IN  IF cfg.dry_run THEN FileAndSidecarReturns(f, c, call.p, sidecar_dst)
        ELSE LET r == OsMove(f, ch.src_sidecar, sidecar_dst, dir_clash, inj)
                 c1 == [c EXCEPT !.side_tries = 1, !.errs = Raised(@, r.err)]
             IN  IF r.err = "" THEN FileAndSidecarReturns(r.fs, c1, call.p, sidecar_dst)
                 ELSE FileAndSidecarReturns(Rename(r.fs, call.p, call.src), c1,
                                            call.p, NoPath)

MoveSidecar(cfg, f, order, dir_clash, call, inj) ==
    LET ch == SidecarChoice(f, call.src, order, 1)
        sidecar_dst == Join(Parent(call.p), WithSuffix(Name(call.p), ch.ext))
        c == [call EXCEPT !.ctx = "sidecar", !.side = ch.src_sidecar,
                          !.side_found = ch.found]
    IN  IF cfg.dry_run THEN FileAndSidecarReturns(f, c, call.p, sidecar_dst)
        ELSE LET r == OsMove(f, ch.src_sidecar, sidecar_dst, dir_clash, inj)
                 c1 == [c EXCEPT !.side_tries = 1, !.errs = Raised(@, r.err)]
             IN  IF r.err = "" THEN FileAndSidecarReturns(r.fs, c1, call.p, sidecar_dst)
                 ELSE RetryMoveToDir(cfg, r.fs, c1, r.err)

(***************************************************************************)
(* Specification of the extension normaliser as a function of its input.   *)
(***************************************************************************)
ExtAlphabet == {" ", ".", "A", "a", "G", "g"}

SanInit ==
    /\ OrgIdle
    /\ op = "sanitize_ext"
    /\ arg \in StringsUpTo(ExtAlphabet, MaxLen)
    /\ out = <<>>

SanitizeExtCall ==
    /\ op = "sanitize_ext"
    /\ out = <<>>
    /\ out' = <<[once |-> SanitizeExt(arg),
                 twice |-> SanitizeExt(SanitizeExt(arg))]>>
    /\ UNCHANGED <<op, arg>>
    /\ UNCHANGED orgVars

SanNext == SanitizeExtCall

SpecSanitize == SanInit /\ [][SanNext]_vars

\* C10: normalisation is idempotent and yields "" or a lowercase string that
\* starts with exactly one '.'.
C10_SanitizeIdempotent ==
    (op = "sanitize_ext" /\ out # <<>>) =>
        /\ out[1].twice = out[1].once
        /\ \/ out[1].once = <<>>
           \/ /\ Len(out[1].once) >= 2
              /\ out[1].once[1] = "."
              /\ out[1].once[2] # "."
              /\ \A i \in 1..Len(out[1].once) : out[1].once[i] \notin UpperChars

\* ' ..A.G ' style input: dots and blanks around an upper-case extension.
C10_Witness ==
    /\ op = "sanitize_ext"
    /\ out # <<>>
    /\ arg = <<" ", ".", ".", "A">>
    /\ out[1].once = <<".", "a">>
(***************************************************************************)
(* Specification of rule-set construction from arbitrary inputs.           *)
(***************************************************************************)
\* The items of a mapping with at most n keys, in every iteration order.
DictItems(K, V, n) ==
    {s \in UNION {[1..k -> K \X V] : k \in 0..n} :
        \A i, j \in 1..Len(s) : i # j => s[i][1] # s[j][1]}

DefaultTunables ==
    [max_move_retries |-> DEFAULT_MAX_MOVE_RETRIES,
     retry_delay_seconds |-> DEFAULT_RETRY_DELAY_SECONDS,
     max_collision_attempts |-> DEFAULT_MAX_COLLISION_ATTEMPTS,
     dry_run |-> FALSE]

CfgDirPool == {S_Images, S_ImagesRaw}
CfgExtPool ==
    {<<" ", ".">>, <<".", "P", "N", "G">>, <<"p", "n", "g">>,
     <<"a", ".", "g">>, <<"a", "_", "g">>}
CfgTargetPool == {S_Images, S_Nope}
CfgPatternPool ==
    {<<"\\x89", "P", "N", "G">>, <<"\\x8">>, <<"\\u20ac">>, <<"(">>}

CfgInit ==
    /\ OrgIdle
    /\ op = "config"
    /\ arg \in [dir_names : UNION {[1..k -> CfgDirPool] : k \in 0..MaxDirs},
                ext_to_dir : DictItems(CfgExtPool, CfgTargetPool, MaxRules),
                ext_to_re : DictItems(CfgExtPool, CfgPatternPool, MaxPatterns)]
    /\ out = <<>>

OrganizerConfigCall ==
    /\ op = "config"
    /\ out = <<>>
    /\ out' = <<OrganizerConfig(arg.dir_names, arg.ext_to_dir, arg.ext_to_re,
                                DefaultTunables)>>
    /\ UNCHANGED <<op, arg>>
    /\ UNCHANGED orgVars

CfgNext == OrganizerConfigCall

SpecConfig == CfgInit /\ [][CfgNext]_vars

\* The last rule of `items` that normalises to key k and names a declared
\* directory (0 when there is none).
LastValidRule(items, dirs, k) ==
    LET I == {i \in 1..Len(items) :
                SanitizeExt(items[i][1]) = k /\ items[i][2] \in dirs}
    IN  IF I = {} THEN 0 ELSE CHOOSE i \in I : \A j \in I : j <= i

\* C9: after construction directory_names is "Misc" plus exactly the declared
\* names, every key of extension_to_directory is a normalised extension, every
\* value is a member of directory_names, and the map holds exactly the rules
\* that have a non-empty normalised extension and a declared target (the last
\* one winning); a dropped rule does not make construction fail.
C9_RuleSetInvariant ==
    (op = "config" /\ out # <<>>) =>
        LET c == out[1]
            declared == {arg.dir_names[i] : i \in 1..Len(arg.dir_names)}
        IN  /\ (arg.ext_to_re = <<>>) => c.status = "ok"
            /\ c.status = "ok" =>
                /\ c.dir_names = declared \cup {DEFAULT_DIR_NAME}
                /\ \A k \in DOMAIN c.ext_to_dir :
                    /\ k # <<>>
                    /\ SanitizeExt(k) = k
                    /\ c.ext_to_dir[k] \in c.dir_names
                    /\ LastValidRule(arg.ext_to_dir, c.dir_names, k) # 0
                    /\ c.ext_to_dir[k] =
                        arg.ext_to_dir[LastValidRule(arg.ext_to_dir, c.dir_names, k)][2]
                /\ \A i \in 1..Len(arg.ext_to_dir) :
                    LET k == SanitizeExt(arg.ext_to_dir[i][1])
                    IN  (k # <<>> /\ arg.ext_to_dir[i][2] \in c.dir_names)
                            => k \in DOMAIN c.ext_to_dir

\* Duplicate declared names, one rule with an empty extension and one rule
\* with an undeclared target: both rules are dropped, construction succeeds.
C9_Witness ==
    /\ op = "config"
    /\ out # <<>>
    /\ arg.dir_names = <<S_Images, S_Images>>
    /\ arg.ext_to_dir = << <<<<" ", ".">>, S_Images>>, <<<<"p", "n", "g">>, S_Nope>> >>
    /\ out[1].status = "ok"
    /\ out[1].dir_names = {S_Images, DEFAULT_DIR_NAME}
    /\ DOMAIN out[1].ext_to_dir = {}
(***************************************************************************)
(* Specification of the classifier and of signature resolution as          *)
(* functions of one directory entry, under the rule set of the tests'      *)
(* fixture (signatures for .png and .sh) and under one without signatures. *)
(***************************************************************************)
E_png == <<".", "p", "n", "g">>
E_jpg == <<".", "j", "p", "g">>
E_sh == <<".", "s", "h">>
E_xmp == <<".", "x", "m", "p">>

ClsConfig ==
    OrganizerConfig(<<S_Images, S_ImagesRaw>>,
                    << <<E_jpg, S_Images>>, <<E_png, S_Images>>, <<E_sh, S_ImagesRaw>> >>,
                    << <<E_png, <<"\\x89", "P">> >>, <<E_sh, <<"#", ".*?", "s">> >> >>,
                    DefaultTunables)

ClsConfigNoRe ==
    OrganizerConfig(<<S_Images, S_ImagesRaw>>,
                    << <<E_jpg, S_Images>>, <<E_png, S_Images>>, <<E_sh, S_ImagesRaw>> >>,
                    <<>>, DefaultTunables)

ClsNames ==
    {<<".", "D", "S", "_", "S", "t", "o", "r", "e">>,
     <<"a", ".", "j", "p", "g">>, <<"a", ".", "J", "P", "G">>,
     <<"a", ".", "x", "m", "p">>, <<"a", ".", "X", "M", "P">>,
     <<"a", ".", "a", "a", "e">>,
     <<"s">>, <<".", "s">>, <<"n", ".", "t", "x", "t">>,
     S_Images, S_Misc, S_Raw,
     <<"t", ".", "d", "o", "w", "n", "l", "o", "a", "d">>,
     <<"x">> \o S_download}

HdrAlphabet == {"x89", "P", "#", "s", "z", "nl"}

\* '#', n filler bytes, 's': the .sh signature ending at byte n + 2.
LongHeader(n) == <<"#">> \o [i \in 1..n |-> "z"] \o <<"s">>

ClsContents ==
    StringsUpTo(HdrAlphabet, MaxHdr)
        \cup {LongHeader(SIGNATURE_READ_SIZE - 2), LongHeader(SIGNATURE_READ_SIZE - 1)}

ClsInit ==
    /\ OrgIdle
    /\ op = "classify"
    /\ arg \in [cfg : {ClsConfig, ClsConfigNoRe},
                name : ClsNames,
                kind : {"file", "dir", "symlink", "fifo"},
                content : ClsContents,
                open_fails : BOOLEAN]
    /\ arg.kind # "file" => (arg.content = <<>> /\ ~arg.open_fails)
    /\ out = <<>>

GetDstDirNameCall ==
    /\ op = "classify"
    /\ out = <<>>
    /\ out' = <<[fn |-> "get_dst_dir_name",
                 r |-> GetDstDirName(arg.cfg, arg, arg.open_fails)]>>
    /\ UNCHANGED <<op, arg>>
    /\ UNCHANGED orgVars

GetDstDirNameBySignatureCall ==
    /\ op = "classify"
    /\ out = <<>>
    /\ arg.kind = "file"
    /\ out' = <<[fn |-> "get_dst_dir_name_by_signature",
                 r |-> GetDstDirNameBySignature(arg.cfg, arg.content, arg.open_fails)]>>
    /\ UNCHANGED <<op, arg>>
    /\ UNCHANGED orgVars

ClsNext == GetDstDirNameCall \/ GetDstDirNameBySignatureCall

SpecClassify == ClsInit /\ [][ClsNext]_vars

\* The order of checks as the claim states it (SKIP and DEFER are both the
\* None result of the method).
ClaimedDecision(cfg, entry, open_fails) ==
    LET name == entry.name
        ext == Lower(Suffix(entry.name))
    IN  IF name \in IGNORED_NAMES THEN <<>>
        ELSE IF entry.kind = "symlink" THEN <<>>
        ELSE IF entry.kind = "dir"
             THEN IF name \in cfg.dir_names \/ EndsWith(name, S_download)
                  THEN <<>> ELSE DEFAULT_DIR_NAME
        ELSE IF entry.kind # "file" THEN <<>>
        ELSE IF ext \in SIDECAR_EXTENSIONS THEN <<>>
        ELSE IF ext = <<>>
             THEN GetDstDirNameBySignature(cfg, entry.content, open_fails).dir
        ELSE IF ext \in DOMAIN cfg.ext_to_dir THEN cfg.ext_to_dir[ext]
        ELSE DEFAULT_DIR_NAME

\* C7: the classifier's decision is the outcome of the first matching check
\* in the order ignore-name, symlink, directory, not-regular, sidecar
\* extension, no extension, configured rule, fallback.
C7_ClaimedOrder ==
    (op = "classify" /\ out # <<>> /\ out[1].fn = "get_dst_dir_name") =>
        out[1].r.dir = ClaimedDecision(arg.cfg, arg, arg.open_fails)

\* The claim's order with the sidecar-extension check moved to where the code
\* has it (second): what the code does for every entry.
C7_CodeOrder ==
    (op = "classify" /\ out # <<>> /\ out[1].fn = "get_dst_dir_name") =>
        out[1].r.dir =
            IF arg.name \notin IGNORED_NAMES
                    /\ Lower(Suffix(arg.name)) \in SIDECAR_EXTENSIONS
            THEN <<>> ELSE ClaimedDecision(arg.cfg, arg, arg.open_fails)

IsPrefix(p, h) == Len(p) <= Len(h) /\ SubSeq(h, 1, Len(p)) = p

\* The .sh signature '#.*?s' read off the first 32 bytes directly.
ShAtOffset0(h) ==
    /\ h # <<>>
    /\ h[1] = "#"
    /\ \E i \in 2..Len(h) : h[i] = "s" /\ \A j \in 2..(i - 1) : h[j] # "nl"

\* C8: signature resolution returns the directory of the extension whose
\* signature is a prefix of the first 32 bytes, the fallback when none matches
\* at offset 0, when the header is empty or when the file cannot be opened,
\* and it never raises.
C8_SignatureResolution ==
    (op = "classify" /\ out # <<>> /\ out[1].fn = "get_dst_dir_name_by_signature") =>
        LET h == SubSeq(arg.content, 1,
                        IF Len(arg.content) < 32 THEN Len(arg.content) ELSE 32)
            r == out[1].r
        IN  /\ ~r.raised
            /\ r.dir =
                IF ~arg.cfg.has_re \/ arg.open_fails \/ h = <<>> THEN S_Misc
                ELSE IF IsPrefix(<<"x89", "P">>, h) THEN S_Images
                ELSE IF ShAtOffset0(h) THEN S_ImagesRaw
                ELSE S_Misc

\* A file whose header holds the .png signature only at offset 1 resolves to
\* the fallback.
C8_Witness ==
    /\ op = "classify"
    /\ out # <<>>
    /\ out[1].fn = "get_dst_dir_name_by_signature"
    /\ arg.cfg.has_re
    /\ ~arg.open_fails
    /\ arg.content = <<"z", "x89", "P">>
    /\ out[1].r.dir = S_Misc

(***************************************************************************)
(* Specification of FileOrganizer.organize on a directory tree.            *)
(*                                                                         *)
(* A path is the sequence of names below root.  fs maps each existing path *)
(* to [kind, id, content]: id tells entries apart when they move, content  *)
(* is the header of a file (or <<"live">> for a link that resolves).       *)
(***************************************************************************)
N_a_jpg == <<"a", ".", "j", "p", "g">>
N_a_txt == <<"a", ".", "t", "x", "t">>
N_a_xmp == <<"a", ".", "x", "m", "p">>
N_a_aae == <<"a", ".", "a", "a", "e">>
N_a_sh == <<"a", ".", "s", "h">>
N_x_xmp == <<"x", ".", "X", "M", "P">>
N_x_1_xmp == <<"x", "_", "1", ".", "X", "M", "P">>
N_s == <<"s">>
N_d == <<"d">>
N_d_1 == <<"d", "_", "1">>
N_d_2 == <<"d", "_", "2">>
N_c == <<"c">>
N_l == <<"l">>
N_DS_Store == <<".", "D", "S", "_", "S", "t", "o", "r", "e">>

Entry(path, kind, id, content) ==
    [path |-> path, kind |-> kind, id |-> id, content |-> content]

\* What root may hold when organize is called.
RootUniverse ==
    { Entry(<<N_a_jpg>>, "file", "a.jpg", <<>>),
      Entry(<<N_a_txt>>, "file", "a.txt", <<>>),
      Entry(<<N_a_xmp>>, "file", "a.xmp", <<>>),
      Entry(<<N_a_aae>>, "file", "a.aae", <<>>),
      Entry(<<N_x_xmp>>, "file", "x.XMP", <<>>),
      Entry(<<N_s>>, "file", "s", <<"x89", "P">>),
      Entry(<<N_d>>, "dir", "d", <<>>),
      Entry(<<N_DS_Store>>, "file", ".DS_Store", <<>>),
      Entry(<<N_l>>, "symlink", "l", <<>>),
      Entry(<<S_Images>>, "file", "Img-file", <<>>) }

\* What the destination directories may hold already: alternative old
\* contents, each with the directories above it.
OldMisc == Entry(<<S_Misc>>, "dir", "Misc", <<>>)
OldImages == Entry(<<S_Images>>, "dir", "Img", <<>>)
OldD == {OldMisc, Entry(<<S_Misc, N_d>>, "dir", "old-d", <<>>),
         Entry(<<S_Misc, N_d, N_c>>, "file", "old-d/c", <<>>)}
OldD1 == OldD \cup {Entry(<<S_Misc, N_d_1>>, "dir", "old-d_1", <<>>),
                    Entry(<<S_Misc, N_d_1, N_c>>, "file", "old-d_1/c", <<>>)}
OldD2 == OldD1 \cup {Entry(<<S_Misc, N_d_2>>, "dir", "old-d_2", <<>>),
                     Entry(<<S_Misc, N_d_2, N_c>>, "file", "old-d_2/c", <<>>)}

PreUniverse ==
    { {OldImages, Entry(<<S_Images, N_a_jpg>>, "file", "old-a.jpg", <<>>)},
      {OldImages, Entry(<<S_Images, N_a_xmp>>, "file", "old-a.xmp", <<>>)},
      {OldMisc, Entry(<<S_Misc, N_x_xmp>>, "file", "old-x.XMP", <<>>)},
      {OldMisc, Entry(<<S_Misc, N_a_txt>>, "file", "old-a.txt", <<>>)},
      {OldMisc, Entry(<<S_Misc, N_d>>, "dir", "old-d", <<>>)},
      OldD, OldD1, OldD2,
      OldD \cup {Entry(<<S_Misc, N_d_1>>, "file", "old-d_1-file", <<>>)} }

\* The entries E form a tree: one entry per path, each below a directory.
IsTree(E) ==
    /\ \A e1, e2 \in E : e1.path = e2.path => e1 = e2
    /\ \A e \in E : Len(e.path) > 1 =>
          \E d \in E : d.path = Parent(e.path) /\ d.kind = "dir"

MkFs(E) ==
    [q \in {e.path : e \in E} |->
        LET e == CHOOSE e \in E : e.path = q
        IN  [kind |-> e.kind, id |-> e.id, content |-> e.content]]

\* Old contents matter to the run only if an entry of root can meet them:
\* the entry itself, or the sidecar of a primary, lands on an old name.
Meets(B, R) ==
    \E b \in B :
        /\ Len(b.path) = 2
        /\ \/ \E r \in R : Name(r.path) = Name(b.path)
           \/ /\ Lower(Suffix(Name(b.path))) \in SIDECAR_EXTENSIONS
              /\ \E r1, r2 \in R :
                    /\ r1 # r2
                    /\ Stem(Name(r1.path)) = Stem(Name(b.path))
                    /\ Name(r2.path) = Name(b.path)

InitialTrees ==
    UNION {{R \cup UNION P :
               P \in {P \in SUBSET PreUniverse :
                         Cardinality(P) <= MaxPre /\ \A B \in P : Meets(B, R)}} :
           R \in {R \in SUBSET RootUniverse : Cardinality(R) \in 1..MaxRoot}}

\* The errno of a directory meeting a non-empty directory matters only if
\* that can happen, and the order of the sidecar extensions only if root
\* holds a name with one of them.
ClashPossible(f) ==
    \E q \in DOMAIN f :
        Len(q) = 2 /\ f[q].kind = "dir" /\ HasChildren(f, q)
            /\ <<Name(q)>> \in DOMAIN f /\ f[<<Name(q)>>].kind = "dir"

OrderMatters(f) ==
    \E q \in DOMAIN f : Len(q) = 1 /\ Lower(Suffix(Name(q))) \in SIDECAR_EXTENSIONS

OrgConfig(dry_run) ==
    OrganizerConfig(<<S_Images, S_ImagesRaw>>,
                    << <<E_jpg, S_Images>>, <<E_png, S_Images>>, <<E_sh, S_ImagesRaw>> >>,
                    << <<E_png, <<"\\x89", "P">> >> >>,
                    [max_move_retries |-> OrgMaxMoveRetries,
                     retry_delay_seconds |-> OrgRetryDelay,
                     max_collision_attempts |-> OrgMaxCollisionAttempts,
                     dry_run |-> dry_run])

\* FileOrganizer(config) is constructed and organize(root) is about to run.
Init ==
    /\ op = "organize"
    /\ arg = <<>>
    /\ out = <<>>
    /\ \E dry_run \in BOOLEAN : config = OrgConfig(dry_run)
    /\ \E root_ok \in BOOLEAN, order \in Orders(SIDECAR_EXTENSIONS),
          dir_clash \in {"EEXIST", "ENOTEMPTY"} :
          env = [root_ok |-> root_ok, sidecar_order |-> order, dir_clash |-> dir_clash,
                 max_faults |-> MaxFaults]
    /\ IF env.root_ok
       THEN \E E \in InitialTrees : IsTree(E) /\ fs = MkFs(E)
       ELSE fs = <<>>
    /\ env.dir_clash = "EEXIST" => ClashPossible(fs)
    /\ env.sidecar_order[1] # E_xmp => OrderMatters(fs)
    /\ fs0 = fs
    /\ fsPre = fs
    /\ pc = "start"
    /\ todo = {}
    /\ cur = NoCall
    /\ last = NoLast
    /\ failed = {}
    /\ faults = 0

\* The errors the operating system may raise on a move ("" for none).
InjectedErrnos == {"EACCES", "EIO", "EBUSY"}

Inject == IF faults < env.max_faults THEN {""} \cup InjectedErrnos ELSE {""}

\* The number of errors the operating system raises in a step.
Faults(inj, open_fails) ==
    (IF inj # "" THEN 1 ELSE 0) + (IF open_fails THEN 1 ELSE 0)

Commit(o, n) ==
    /\ fs' = o.fs
    /\ pc' = o.pc
    /\ cur' = o.cur
    /\ last' = o.last
    /\ failed' = o.failed
    /\ faults' = faults + n

\* organize up to its first loop: the is_dir check, _create_dirs, iterdir.
Organize ==
    /\ pc = "start"
    /\ \E order \in Orders(config.dir_names) :
          LET r == CreateDirs(config, fs, order)
          IN  IF ~env.root_ok
              THEN pc' = "raised" /\ UNCHANGED <<fs, todo>>
              ELSE IF r.err # ""
              THEN pc' = "raised" /\ fs' = r.fs /\ UNCHANGED todo
              ELSE pc' = "main" /\ fs' = r.fs /\ todo' = IterDir(r.fs)
    /\ UNCHANGED <<op, arg, out, fs0, fsPre, config, env, cur, last, failed, faults>>

NewCall(ctx, src, dst_dir) ==
    [NoCall EXCEPT !.ctx = ctx, !.src = src, !.dst_dir = dst_dir]

\* One iteration of the first loop: _process_dir_entry(entry, root), up to
\* the end of the first move attempt.
ProcessDirEntry ==
    /\ pc = "main"
    /\ \E e \in todo, inj \in Inject, open_fails \in BOOLEAN :
          LET path == <<e.name>>
              gone == path \notin DOMAIN fs
              entry == [name |-> e.name, kind |-> e.kind,
                        content |-> IF gone THEN <<>> ELSE fs[path].content]
              d == GetDstDirName(config, entry, gone \/ open_fails)
              call == NewCall(IF e.kind = "dir" THEN "dir" ELSE "file",
                              path, SplitPath(d.dir))
          IN  /\ inj # "" => d.dir # NoPath /\ ~config.dry_run
              /\ open_fails => /\ ~gone
                               /\ GetDstDirName(config, entry, FALSE).opened
                               /\ faults + Faults(inj, open_fails) <= env.max_faults
              /\ todo' = todo \ {e}
              /\ fsPre' = fs
              /\ IF d.dir = NoPath
                 THEN Commit(Outcome(fs, "main", NoCall,
                                     [NoLast EXCEPT !.fn = "skip", !.src = path], {}),
                             Faults(inj, open_fails))
                 ELSE Commit(MoveToDir(config, fs, env.dir_clash, call, inj),
                             Faults(inj, open_fails))
    /\ UNCHANGED <<op, arg, out, fs0, config, env>>

\* The next iteration of the collision loop of _move_to_dir.
Collide ==
    /\ pc = "collide"
    /\ \E inj \in Inject :
          Commit(CollisionAttempt(config, fs, env.dir_clash, cur, inj),
                 Faults(inj, FALSE))
    /\ UNCHANGED <<op, arg, out, fs0, fsPre, config, env, todo>>

\* The next iteration of the loop of _retry_move_to_dir.
Retry ==
    /\ pc = "retry"
    /\ \E inj \in Inject :
          Commit(RetryAttempt(config, fs, env.dir_clash, cur, inj),
                 Faults(inj, FALSE))
    /\ UNCHANGED <<op, arg, out, fs0, fsPre, config, env, todo>>

\* _move_file_and_sidecar goes on with the sidecar.
Sidecar ==
    /\ pc = "sidecar"
    /\ \E inj \in Inject :
          /\ inj # "" => ~config.dry_run
          /\ Commit(MoveSidecar(config, fs, env.sidecar_order, env.dir_clash, cur, inj),
                    Faults(inj, FALSE))
    /\ UNCHANGED <<op, arg, out, fs0, fsPre, config, env, todo>>

\* The first loop is over: organize lists root again for the second loop.
StartSweep ==
    /\ pc = "main"
    /\ todo = {}
    /\ pc' = "sweep"
    /\ todo' = IterDir(fs)
    /\ UNCHANGED <<op, arg, out, fs, fs0, fsPre, config, env, cur, last, failed, faults>>

\* A variant of the test of the second loop that compares the suffix as it is.
IsOrphanSidecarCaseSensitive(e) ==
    /\ e.name \notin IGNORED_NAMES
    /\ e.kind = "file"
    /\ Suffix(e.name) \in SIDECAR_EXTENSIONS

\* Whether the second loop of organize moves the entry.
IsOrphanSidecar(e) ==
    /\ e.name \notin IGNORED_NAMES
    /\ e.kind # "symlink"
    /\ e.kind = "file"
    /\ Lower(Suffix(e.name)) \in SIDECAR_EXTENSIONS

\* One iteration of the second loop, up to the end of the first move attempt.
SweepEntry ==
    /\ pc = "sweep"
    /\ \E e \in todo, inj \in Inject :
          LET path == <<e.name>>
              call == NewCall("sweep", path, SplitPath(DEFAULT_DIR_NAME))
          IN  /\ inj # "" => IsOrphanSidecar(e) /\ ~config.dry_run
              /\ todo' = todo \ {e}
              /\ fsPre' = fs
              /\ IF IsOrphanSidecar(e)
                 THEN Commit(MoveToDir(config, fs, env.dir_clash, call, inj),
                             Faults(inj, FALSE))
                 ELSE Commit(Outcome(fs, "sweep", NoCall,
                                     [NoLast EXCEPT !.fn = "skip", !.src = path], {}),
                             Faults(inj, FALSE))
    /\ UNCHANGED <<op, arg, out, fs0, config, env>>

\* organize returns.
Finish ==
    /\ pc = "sweep"
    /\ todo = {}
    /\ pc' = "done"
    /\ UNCHANGED <<op, arg, out, fs, fs0, fsPre, config, env, todo, cur, last, failed, faults>>

Next ==
    \/ Organize
    \/ ProcessDirEntry
    \/ Collide
    \/ Retry
    \/ Sidecar
    \/ StartSweep
    \/ SweepEntry
    \/ Finish

Spec == Init /\ [][Next]_vars

(***************************************************************************)
(* organize as a function of the tree, for one enumeration of root: the    *)
(* entries are taken in the order `Pick` gives, and the operating system   *)
(* raises no error of its own.                                             *)
(***************************************************************************)
\* A call of the Mover, from the outcome of its first attempt to its end.
RECURSIVE RunCall(_)
RunCall(o) ==
    CASE o.pc = "collide" ->
            RunCall(CollisionAttempt(config, o.fs, env.dir_clash, o.cur, ""))
      [] o.pc = "retry" ->
            RunCall(RetryAttempt(config, o.fs, env.dir_clash, o.cur, ""))
      [] o.pc = "sidecar" ->
            RunCall(MoveSidecar(config, o.fs, env.sidecar_order, env.dir_clash, o.cur, ""))
      [] OTHER -> o

\* _process_dir_entry(entry, root) as a whole.
ProcessDirEntryRun(f, e) ==
    LET path == <<e.name>>
        gone == path \notin DOMAIN f
        entry == [name |-> e.name, kind |-> e.kind,
                  content |-> IF gone THEN <<>> ELSE f[path].content]
        d == GetDstDirName(config, entry, gone)
        call == NewCall(IF e.kind = "dir" THEN "dir" ELSE "file", path, SplitPath(d.dir))
    IN  IF d.dir = NoPath THEN f
        ELSE RunCall(MoveToDir(config, f, env.dir_clash, call, "")).fs

\* One iteration of the second loop as a whole.
SweepEntryRun(f, e) ==
    IF IsOrphanSidecar(e)
    THEN RunCall(MoveToDir(config, f, env.dir_clash,
                           NewCall("sweep", <<e.name>>, SplitPath(DEFAULT_DIR_NAME)), "")).fs
    ELSE f

\* The entry of a listing that the enumeration yields first.
Pick(listing) == CHOOSE e \in listing : TRUE

RECURSIVE MainPass(_, _)
MainPass(f, listing) ==
    IF listing = {} THEN f
    ELSE MainPass(ProcessDirEntryRun(f, Pick(listing)), listing \ {Pick(listing)})

RECURSIVE SweepPass(_, _)
SweepPass(f, listing) ==
    IF listing = {} THEN f
    ELSE SweepPass(SweepEntryRun(f, Pick(listing)), listing \ {Pick(listing)})

OrganizeRun(f) ==
    LET r == CreateDirs(config, f, CHOOSE order \in Orders(config.dir_names) : TRUE)
        main == MainPass(r.fs, IterDir(r.fs))
    IN  SweepPass(main, IterDir(main))

(***************************************************************************)
(* Specification of organize on small trees under more errors of the       *)
(* operating system, with varying tunables and destination names.          *)
(***************************************************************************)
MoverRootUniverse ==
    { Entry(<<N_a_jpg>>, "file", "a.jpg", <<>>),
      Entry(<<N_a_xmp>>, "file", "a.xmp", <<>>),
      Entry(<<N_a_xmp>>, "symlink", "link-a.xmp", <<"live">>),
      Entry(<<N_a_aae>>, "symlink", "link-a.aae", <<>>),
      Entry(<<N_l>>, "symlink", "l", <<"live">>),
      Entry(<<N_x_xmp>>, "file", "x.XMP", <<>>),
      Entry(<<N_a_sh>>, "file", "a.sh", <<>>),
      Entry(<<N_d>>, "dir", "d", <<>>) }

MoverPreUniverse ==
    { {OldImages, Entry(<<S_Images, N_a_jpg>>, "file", "old-a.jpg", <<>>)},
      {OldMisc, Entry(<<S_Misc, N_x_xmp>>, "file", "old-x.XMP", <<>>)},
      {OldMisc, Entry(<<S_Misc, N_x_xmp>>, "file", "old-x.XMP", <<>>),
                Entry(<<S_Misc, N_x_1_xmp>>, "file", "old-x_1.XMP", <<>>)},
      OldD, OldD1, OldD2,
      OldD \cup {Entry(<<S_Misc, N_d_1>>, "dir", "old-d_1", <<>>)},
      OldD \cup {Entry(<<S_Misc, N_d_1>>, "file", "old-d_1-file", <<>>)} }

MoverTrees ==
    UNION {{R \cup UNION P :
               P \in {P \in SUBSET MoverPreUniverse :
                         Cardinality(P) <= MaxPre /\ \A B \in P : Meets(B, R)}} :
           R \in {R \in SUBSET MoverRootUniverse : Cardinality(R) \in 1..MaxMoverRoot}}

MoverConfig(dir_names, max_move_retries, max_collision_attempts) ==
    OrganizerConfig(dir_names,
                    << <<E_jpg, S_Images>>, <<E_sh, S_ImagesRaw>> >>,
                    <<>>,
                    [max_move_retries |-> max_move_retries,
                     retry_delay_seconds |-> OrgRetryDelay,
                     max_collision_attempts |-> max_collision_attempts,
                     dry_run |-> FALSE])

\* The configurations: every pair of tunables with the parent of the nested
\* destination declared, and one whose only declared name is the nested one.
MoverConfigs ==
    {MoverConfig(<<S_Images, S_ImagesRaw>>, r, c) :
        r \in 0..OrgMaxMoveRetries, c \in 1..OrgMaxCollisionAttempts}
    \cup {MoverConfig(<<S_ImagesRaw>>, OrgMaxMoveRetries, OrgMaxCollisionAttempts)}

MoverInit ==
    /\ op = "organize"
    /\ arg = <<>>
    /\ out = <<>>
    /\ config \in MoverConfigs
    /\ \E order \in Orders(SIDECAR_EXTENSIONS), dir_clash \in {"EEXIST", "ENOTEMPTY"} :
          env = [root_ok |-> TRUE, sidecar_order |-> order, dir_clash |-> dir_clash,
                 max_faults |-> MaxMoverFaults]
    /\ \E E \in MoverTrees : IsTree(E) /\ fs = MkFs(E)
    /\ env.dir_clash = "EEXIST" => ClashPossible(fs)
    /\ env.sidecar_order[1] # E_xmp => OrderMatters(fs)
    /\ fs0 = fs
    /\ fsPre = fs
    /\ pc = "start"
    /\ todo = {}
    /\ cur = NoCall
    /\ last = NoLast
    /\ failed = {}
    /\ faults = 0

SpecMover == MoverInit /\ [][Next]_vars


(***************************************************************************)
(* Properties of organize.                                                 *)
(***************************************************************************)
\* A call of the Mover on a primary entry or in the sweep has completed and
\* its move succeeded.
LastMoved ==
    /\ last.fn \in {"_move_to_dir", "_move_file_and_sidecar"}
    /\ last.p # NoPath
    /\ ~config.dry_run

LastTarget == Join(last.dst_dir, Name(last.src))

IsAlternateName(p, target) ==
    \E n \in 1..config.max_collision_attempts :
        p = GenerateUniqueDestinationPath(config, target, n)

\* C1: a move into a directory that already holds an entry of the same name
\* never overwrites it: afterwards the old entry is still at its path with
\* its content, and the moved source is at a generated alternate name
\* (stem_N.suffix) in that directory.
C1_NeverOverwrites ==
    (LastMoved /\ LastTarget \in DOMAIN fsPre) =>
        /\ LastTarget \in DOMAIN fs
        /\ fs[LastTarget] = fsPre[LastTarget]
        /\ IsAlternateName(last.p, LastTarget)
        /\ last.p \in DOMAIN fs
        /\ fs[last.p] = fsPre[last.src]

\* What the code does instead for a file that meets a file (or an entry that
\* meets an empty directory): the moved source is at the old entry's path.
C1_Overwritten ==
    /\ LastMoved
    /\ LastTarget \in DOMAIN fsPre
    /\ last.errs = <<>>
    /\ last.p = LastTarget
    /\ fs[LastTarget].id = fsPre[last.src].id
    /\ \A q \in DOMAIN fs : fs[q].id # fsPre[LastTarget].id

\* C5: organize raises only if root is not a usable directory; for a usable
\* root every failure of an entry is absorbed and organize returns.
C5_RaisesOnlyForUnusableRoot == pc = "raised" => ~env.root_ok

\* C6: in a dry run organize changes nothing: the tree under root is at
\* every moment the tree organize was called with.
C6_DryRunNoMutation == config.dry_run => fs = fs0

C6_Witness ==
    /\ config.dry_run
    /\ pc = "done"
    /\ last.fn = "_move_to_dir"
    /\ last.ctx = "sweep"
    /\ last.p # NoPath
    /\ \E q \in DOMAIN fs : Len(q) = 1 /\ fs[q].kind = "dir"
            /\ GetDstDirName(config, [name |-> q[1], kind |-> "dir", content |-> <<>>],
                             FALSE).dir # NoPath
    /\ \E q \in DOMAIN fs : Len(q) = 1 /\ Lower(Suffix(q[1])) = E_jpg
    /\ <<S_Images>> \notin DOMAIN fs


\* _move_file_and_sidecar has returned.
PairReturned == last.fn = "_move_file_and_sidecar" /\ ~config.dry_run

\* C2: when a primary moves and a sidecar of it exists in root, the sidecar
\* ends in the directory of the primary under the primary's final stem plus
\* the sidecar extension and is gone from root (an old file at that path is
\* replaced); the pairing reports none only if the operating system raised
\* an error on the sidecar.
C2_SidecarFollowsPrimary ==
    (PairReturned /\ last.p # NoPath /\ last.side_found) =>
        /\ last.s = NoPath => last.errs # <<>>
        /\ last.s # NoPath =>
              /\ Parent(last.s) = last.dst_dir
              /\ Parent(last.s) = Parent(last.p)
              /\ Stem(Name(last.s)) = Stem(Name(last.p))
              /\ Lower(Suffix(Name(last.s))) = Lower(Suffix(Name(last.side)))
              /\ last.s \in DOMAIN fs
              /\ fs[last.s] = fsPre[last.side]
              /\ last.side \notin DOMAIN fs
              /\ \A q \in DOMAIN fs : fs[q].id = fsPre[last.side].id => q = last.s

\* A primary and its sidecar have moved, and the sidecar replaced an old file.
C2_Witness ==
    /\ PairReturned
    /\ last.p # NoPath
    /\ last.side_found
    /\ last.s # NoPath
    /\ last.s \in DOMAIN fsPre
    /\ fs[last.s].id # fsPre[last.s].id
    /\ fs[last.p].id = fsPre[last.src].id

SidecarsOf(src) ==
    {Join(Parent(src), WithSuffix(Name(src), ext)) : ext \in SIDECAR_EXTENSIONS}

\* C3: if the move of the primary fails, no sidecar move is attempted: the
\* result is (none, none) and every sidecar of the primary is where and
\* what it was when the call began.
C3_PrimaryFailureLeavesSidecar ==
    (PairReturned /\ last.p = NoPath) =>
        /\ last.s = NoPath
        /\ last.side_tries = 0
        /\ \A sc \in SidecarsOf(last.src) :
              sc \in DOMAIN fsPre => sc \in DOMAIN fs /\ fs[sc] = fsPre[sc]
        /\ \A q \in DOMAIN fs :
              Lower(Suffix(Name(q))) \in SIDECAR_EXTENSIONS =>
                  q \in DOMAIN fsPre /\ fs[q] = fsPre[q]

\* The move of a primary that has a sidecar in root has failed.
C3_Witness ==
    /\ PairReturned
    /\ last.p = NoPath
    /\ last.errs # <<>>
    /\ last.src \in DOMAIN fs
    /\ \E sc \in SidecarsOf(last.src) : sc \in DOMAIN fsPre

\* The regular files of root with a sidecar extension and no primary of the
\* same stem in root when organize was called.
Orphans ==
    {q \in DOMAIN fs0 :
        /\ Len(q) = 1
        /\ fs0[q].kind = "file"
        /\ Name(q) \notin IGNORED_NAMES
        /\ Lower(Suffix(Name(q))) \in SIDECAR_EXTENSIONS
        /\ \A r \in DOMAIN fs0 :
              (Len(r) = 1 /\ r # q /\ Stem(Name(r)) = Stem(Name(q)))
                  => Lower(Suffix(Name(r))) \in SIDECAR_EXTENSIONS}

InFallback(id) ==
    \E q \in DOMAIN fs : Parent(q) = SplitPath(DEFAULT_DIR_NAME) /\ fs[q].id = id

\* The sidecars that left root with their primary.
MovedSidecars ==
    {q \in DOMAIN fs0 :
        /\ Len(q) = 1
        /\ Lower(Suffix(Name(q))) \in SIDECAR_EXTENSIONS
        /\ q \notin DOMAIN fs}

\* C4: when organize returns, every orphan sidecar of root is in the
\* fallback directory, unless the operating system raised an error on its
\* move, which is then reported as failed; and a sweep move of a sidecar
\* path that has left root returns without raising and changes nothing.
C4_OrphanSweep ==
    (pc = "done" /\ ~config.dry_run) =>
        /\ \A q \in Orphans :
              \/ InFallback(fs0[q].id) /\ q \notin DOMAIN fs
              \/ q \in failed /\ faults > 0
        /\ \A q \in MovedSidecars :
              LET o == MoveToDir(config, fs, env.dir_clash,
                                 NewCall("sweep", q, SplitPath(DEFAULT_DIR_NAME)), "")
              IN  o.pc = "sweep" /\ o.fs = fs /\ o.last.p = NoPath

\* organize has returned, an orphan is in the fallback directory and a
\* paired sidecar has left root with its primary.
C4_Witness ==
    /\ pc = "done"
    /\ ~config.dry_run
    /\ \E q \in Orphans : InFallback(fs0[q].id) /\ q \notin DOMAIN fs
    /\ \E q \in MovedSidecars : ~InFallback(fs0[q].id)


\* The symbolic links that were direct children of root when organize was
\* called.
RootSymlinks == {q \in DOMAIN fs0 : Len(q) = 1 /\ fs0[q].kind = "symlink"}

\* C11: a symbolic link that is a direct child of root is never moved,
\* renamed or followed: it stays at its path with its target, whatever its
\* name, also when it has a sidecar extension and the stem of a primary that
\* moves in the same pass.
C11_SymlinksStay ==
    \A q \in RootSymlinks : q \in DOMAIN fs /\ fs[q] = fs0[q]

\* What the code does for a link named like the sidecar of a primary: the
\* link itself leaves root with the primary.
C11_LinkMovedAsSidecar ==
    /\ last.fn = "_move_file_and_sidecar"
    /\ last.s # NoPath
    /\ last.side \in RootSymlinks
    /\ last.side \notin DOMAIN fs
    /\ fs[last.s] = fs0[last.side]


\* C12: organize never moves its own destination directories: when a run
\* that is not dry returns, root/d is a directory for every destination name
\* d, nested names included, and no directory that organize created is in
\* the fallback directory.
C12_DestinationsStay ==
    (pc = "done" /\ ~config.dry_run) =>
        /\ \A d \in config.dir_names :
              SplitPath(d) \in DOMAIN fs /\ fs[SplitPath(d)].kind = "dir"
        /\ \A q \in DOMAIN fs :
              fs[q].id = "mkdir" => ~IsUnder(SplitPath(DEFAULT_DIR_NAME), q)

\* Every directory above a destination is a destination itself.
ParentsDeclared ==
    \A d \in config.dir_names :
        \A k \in 1..(Len(SplitPath(d)) - 1) :
            \E e \in config.dir_names : SplitPath(e) = SubSeq(SplitPath(d), 1, k)

\* What the code guarantees: the destinations stay when their parents are
\* declared.
C12_DeclaredDestinationsStay == ParentsDeclared => C12_DestinationsStay


(***************************************************************************)
(* Specification of the candidate names as a function of the ceiling and   *)
(* the counter.                                                            *)
(***************************************************************************)
MaxAttempts == 110

CandInit ==
    /\ OrgIdle
    /\ op = "candidate"
    /\ \E m \in 1..MaxAttempts, n \in 1..MaxAttempts :
          n <= m /\ arg = [max_collision_attempts |-> m, n |-> n]
    /\ out = <<>>

GenerateUniqueDestinationPathCall ==
    /\ op = "candidate"
    /\ out = <<>>
    /\ out' = <<GenerateUniqueDestinationPath(arg, <<S_Misc, N_a_jpg>>, arg.n)>>
    /\ UNCHANGED <<op, arg>>
    /\ UNCHANGED orgVars

CandNext == GenerateUniqueDestinationPathCall

SpecCandidates == CandInit /\ [][CandNext]_vars

RECURSIVE DigitsValue(_)
DigitsValue(ds) ==
    IF ds = <<>> THEN 0
    ELSE 10 * DigitsValue(SubSeq(ds, 1, Len(ds) - 1))
         + (CHOOSE v \in 0..9 : DigitChars[v + 1] = ds[Len(ds)])

\* The number of decimal digits of n, counted without the conversion.
RECURSIVE NumDigits(_)
NumDigits(n) == IF n < 10 THEN 1 ELSE 1 + NumDigits(n \div 10)

\* The names are stem_N.suffix in the directory of the path, N being the
\* counter in decimal, padded with zeros to the width of the ceiling.
C13_CandidateNames ==
    out # <<>> =>
        LET name == Name(out[1])
            counter == SubSeq(name, 3, Len(name) - 4)
        IN  /\ Parent(out[1]) = <<S_Misc>>
            /\ SubSeq(name, 1, 2) = <<"a", "_">>
            /\ SubSeq(name, Len(name) - 3, Len(name)) = E_jpg
            /\ Len(counter) = NumDigits(arg.max_collision_attempts)
            /\ \A i \in 1..Len(counter) : \E v \in 0..9 : DigitChars[v + 1] = counter[i]
            /\ DigitsValue(counter) = arg.n

C13_CandidateNamesWitness ==
    /\ out # <<>>
    /\ arg = [max_collision_attempts |-> 100, n |-> 7]
    /\ Name(out[1]) = <<"a", "_", "0", "0", "7", ".", "j", "p", "g">>

\* A move has completed that began with a collision.
AfterCollision ==
    /\ last.fn \in {"_move_to_dir", "_move_file_and_sidecar"}
    /\ last.errs # <<>>
    /\ ExcClass(last.errs[1]) = "FileExistsError"

Candidate(n) ==
    GenerateUniqueDestinationPath(config, Join(last.dst_dir, Name(last.src)), n)

\* C13: on a collision the candidates stem_1, stem_2, ... are tried in
\* increasing order with the counter padded to the width of
\* max_collision_attempts, and the source is placed at the first candidate
\* that does not exist yet.
C13_FirstFreeCandidate ==
    (AfterCollision /\ last.p # NoPath) =>
        \E n \in 1..config.max_collision_attempts :
            /\ last.p = Candidate(n)
            /\ last.tries = n + 1
            /\ Len(Name(last.p)) = Len(Name(last.src)) + 1
                                      + Len(Str(config.max_collision_attempts))
            /\ \A m \in 1..(n - 1) : Candidate(m) \in DOMAIN fsPre
            /\ Candidate(n) \notin DOMAIN fsPre
            /\ fs[last.p] = fsPre[last.src]

\* What the code does: the source is at the first candidate whose rename
\* raised no FileExistsError, and an empty directory of that name is
\* replaced.
C13_FirstCandidateNotRaising ==
    (AfterCollision /\ last.p # NoPath) =>
        \E n \in 1..config.max_collision_attempts :
            /\ last.p = Candidate(n)
            /\ last.tries = n + 1
            /\ \A m \in 1..(n - 1) : Candidate(m) \in DOMAIN fsPre
            /\ Candidate(n) \in DOMAIN fsPre => ~HasChildren(fsPre, Candidate(n))
            /\ fs[last.p] = fsPre[last.src]


\* No pattern of the input survives construction: each is for an extension
\* that normalises to empty or has no valid rule, or cannot be unescaped or
\* encoded.
NoSurvivor ==
    \A i \in 1..Len(arg.ext_to_re) :
        LET e == SanitizeExt(arg.ext_to_re[i][1])
            raw == arg.ext_to_re[i][2]
        IN  \/ e = <<>>
            \/ e \notin DOMAIN out[1].ext_to_dir
            \/ UnescapeRaises(raw)
            \/ Latin1Raises(Unescape(raw))

\* C14: if no signature pattern survives construction the matcher is absent,
\* not a matcher that never matches, and signature resolution returns the
\* fallback directory for every file without opening it.
C14_NoMatcherNoIO ==
    (op = "config" /\ out # <<>> /\ NoSurvivor) =>
        /\ out[1].status = "ok"
        /\ ~out[1].has_re
        /\ out[1].signatures_re = <<>>
        /\ \A content \in ClsContents, open_fails \in BOOLEAN :
              GetDstDirNameBySignature(out[1], content, open_fails)
                  = [dir |-> DEFAULT_DIR_NAME, opened |-> FALSE, raised |-> FALSE]

\* Patterns were supplied and none survived: one is for an extension that
\* normalises to empty, one for an extension without a valid rule.
C14_Witness ==
    /\ op = "config"
    /\ out # <<>>
    /\ NoSurvivor
    /\ Len(arg.ext_to_re) = 2
    /\ \E i \in 1..2 : SanitizeExt(arg.ext_to_re[i][1]) = <<>>
    /\ \E i \in 1..2 :
          /\ SanitizeExt(arg.ext_to_re[i][1]) # <<>>
          /\ SanitizeExt(arg.ext_to_re[i][1]) \notin DOMAIN out[1].ext_to_dir
          /\ ~UnescapeRaises(arg.ext_to_re[i][2])
          /\ ~InvalidRegex(Unescape(arg.ext_to_re[i][2]))


(***************************************************************************)
(* OrganizerConfig.from_ini and OrganizerConfig.from_json.  A file is      *)
(* [path, fields, dir_names, ext_to_dir, ext_to_re]: path tells what is at *)
(* config_path, fields which sections (keys) the file has, dir_names is    *)
(* the items <<key, name>>, ext_to_dir the rules as pairs <<ext, key>> in  *)
(* the order the loader visits them.  The result is [status, config] with  *)
(* config = <<>> when the loader raised.                                   *)
(***************************************************************************)
REQUIRED_CONFIG_FIELDS == {"dir_names", "ext_to_dir"}

LoadRaises(exc) == [status |-> exc, config |-> <<>>]

Loaded(cfg) == [status |-> IF cfg.status = "ok" THEN "ok" ELSE "re.error",
                config |-> IF cfg.status = "ok" THEN <<cfg>> ELSE <<>>]

\* _read_validated_config: open() of a missing path or of a directory.
ReadValidatedConfig(path) == IF path = "file" THEN "" ELSE "FileNotFoundError"

\* _validate_config_fields
ValidateConfigFields(fields) ==
    IF REQUIRED_CONFIG_FIELDS \ fields # {} THEN "MissingRequiredFieldsError" ELSE ""

Values(items) == [i \in 1..Len(items) |-> items[i][2]]

Keys(items) == {items[i][1] : i \in 1..Len(items)}

Lookup(items, key) == (CHOOSE i \in 1..Len(items) : items[i][1] = key)

\* The loop of from_ini: a rule whose key is no key of [dir_names] is skipped.
RECURSIVE IniRules(_, _)
IniRules(dir_names, rules) ==
    IF rules = <<>> THEN <<>>
    ELSE IF rules[1][2] \in Keys(dir_names)
         THEN << <<rules[1][1], dir_names[Lookup(dir_names, rules[1][2])][2]>> >>
                  \o IniRules(dir_names, Tail(rules))
         ELSE IniRules(dir_names, Tail(rules))

\* The loop of from_json: content["dir_names"][dir_key] raises KeyError for
\* a key that is no key of dir_names.
JsonRaises(dir_names, rules) ==
    \E i \in 1..Len(rules) : rules[i][2] \notin Keys(dir_names)

FromIni(file) ==
    IF ReadValidatedConfig(file.path) # "" THEN LoadRaises(ReadValidatedConfig(file.path))
    ELSE IF ValidateConfigFields(file.fields) # ""
    THEN LoadRaises(ValidateConfigFields(file.fields))
    ELSE Loaded(OrganizerConfig(Values(file.dir_names),
                                IniRules(file.dir_names, file.ext_to_dir),
                                IF "ext_to_re" \in file.fields THEN file.ext_to_re ELSE <<>>,
                                DefaultTunables))

FromJson(file) ==
    IF ReadValidatedConfig(file.path) # "" THEN LoadRaises(ReadValidatedConfig(file.path))
    ELSE IF ValidateConfigFields(file.fields) # ""
    THEN LoadRaises(ValidateConfigFields(file.fields))
    ELSE IF JsonRaises(file.dir_names, file.ext_to_dir) THEN LoadRaises("KeyError")
    ELSE Loaded(OrganizerConfig(Values(file.dir_names),
                                IniRules(file.dir_names, file.ext_to_dir),
                                IF "ext_to_re" \in file.fields THEN file.ext_to_re ELSE <<>>,
                                DefaultTunables))

(***************************************************************************)
(* Specification of the loaders as functions of the configuration file.    *)
(***************************************************************************)
LoadDirItems == << <<"images", S_Images>>, <<"raw", S_ImagesRaw>> >>

LoadExtPool == {<<"j", "p", "g">>, <<".", "P", "N", "G">>}

LoadKeyPool == {"images", "raw", "nope"}

LoadFiles ==
    [path : {"missing", "dir", "file"},
     fields : SUBSET {"dir_names", "ext_to_dir", "ext_to_re"},
     dir_names : {SubSeq(LoadDirItems, 1, k) : k \in 0..Len(LoadDirItems)},
     ext_to_dir : DictItems(LoadExtPool, LoadKeyPool, MaxRules),
     ext_to_re : {<<>>, << <<<<"p", "n", "g">>, <<"\\x89", "P">> >> >>}]

\* A section that the file does not have holds nothing, and a path that is
\* no file has no content.
WellFormedFile(file) ==
    /\ "dir_names" \notin file.fields => file.dir_names = <<>>
    /\ "ext_to_dir" \notin file.fields => file.ext_to_dir = <<>>
    /\ "ext_to_re" \notin file.fields => file.ext_to_re = <<>>
    /\ file.path # "file" => file.fields = {}

LoadInit ==
    /\ OrgIdle
    /\ op \in {"from_ini", "from_json"}
    /\ arg \in LoadFiles
    /\ WellFormedFile(arg)
    /\ out = <<>>

FromIniCall ==
    /\ op = "from_ini"
    /\ out = <<>>
    /\ out' = <<FromIni(arg)>>
    /\ UNCHANGED <<op, arg>>
    /\ UNCHANGED orgVars

FromJsonCall ==
    /\ op = "from_json"
    /\ out = <<>>
    /\ out' = <<FromJson(arg)>>
    /\ UNCHANGED <<op, arg>>
    /\ UNCHANGED orgVars

LoadNext == FromIniCall \/ FromJsonCall

SpecLoad == LoadInit /\ [][LoadNext]_vars

\* The rules of the file whose directory key is a key of dir_names.
KnownRules == {i \in 1..Len(arg.ext_to_dir) : arg.ext_to_dir[i][2] \in Keys(arg.dir_names)}

\* The load succeeded and the rule set holds exactly the rules with a known
\* key.
SoftSkip ==
    /\ out[1].status = "ok"
    /\ DOMAIN out[1].config[1].ext_to_dir
          = {SanitizeExt(arg.ext_to_dir[i][1]) : i \in KnownRules}
    /\ \A i \in KnownRules :
          out[1].config[1].ext_to_dir[SanitizeExt(arg.ext_to_dir[i][1])]
              = arg.dir_names[Lookup(arg.dir_names, arg.ext_to_dir[i][2])][2]

\* C15: loading fails hard and constructs no rule set when the path is
\* missing or a directory (FileNotFoundError) or a required field is missing
\* (MissingRequiredFieldsError); a rule whose directory key is unknown is a
\* soft skip after which construction succeeds.
C15_HardAndSoftFailures ==
    out # <<>> =>
        /\ arg.path # "file" =>
              out[1] = [status |-> "FileNotFoundError", config |-> <<>>]
        /\ (arg.path = "file" /\ REQUIRED_CONFIG_FIELDS \ arg.fields # {}) =>
              out[1] = [status |-> "MissingRequiredFieldsError", config |-> <<>>]
        /\ (arg.path = "file" /\ REQUIRED_CONFIG_FIELDS \subseteq arg.fields) => SoftSkip

\* What the code guarantees: the claim holds for from_ini.
C15_IniHardAndSoftFailures == op = "from_ini" => C15_HardAndSoftFailures

\* What from_json does for an unknown directory key.
C15_JsonKeyError ==
    /\ op = "from_json"
    /\ out # <<>>
    /\ out[1] = [status |-> "KeyError", config |-> <<>>]
    /\ REQUIRED_CONFIG_FIELDS \subseteq arg.fields
    /\ KnownRules # {}


\* A call of the Mover on a primary entry or in the sweep has completed and
\* reported failure (no final path).
LastFailed ==
    /\ last.fn \in {"_move_to_dir", "_move_file_and_sidecar"}
    /\ last.p = NoPath
    /\ ~config.dry_run

\* The source of the last call was there when the call was made.
SourceWasThere == last.src \in DOMAIN fsPre

C16_SidecarFailureLeavesSidecar ==
    (PairReturned /\ last.p # NoPath /\ last.side_found /\ last.s = NoPath) =>
        /\ last.side \in DOMAIN fs
        /\ fs[last.side] = fsPre[last.side]
        /\ \A q \in DOMAIN fs \cup DOMAIN fsPre :
              (q # last.src /\ q # last.p) =>
                  /\ q \in DOMAIN fs
                  /\ q \in DOMAIN fsPre
                  /\ fs[q] = fsPre[q]

\* The four reported failures of the claim.
FailedBy(kind) ==
    /\ LastFailed
    /\ SourceWasThere
    /\ last.errs # <<>>
    /\ CASE kind = "permission" -> last.errs = <<"EACCES">>
         [] kind = "non-transient" -> last.errs = <<"EIO">>
         [] kind = "retries" ->
                /\ last.errs[1] \in TRANSIENT_ERRNO_CODES
                /\ Len(last.slept) = config.max_move_retries
                /\ Len(last.slept) > 0
         [] kind = "collisions" ->
                /\ \A i \in 1..Len(last.errs) : last.errs[i] = "EEXIST"
                /\ Len(last.errs) = 1 + config.max_collision_attempts

AllNamesTaken ==
    /\ last.fn \in {"_move_to_dir", "_move_file_and_sidecar", "raise"}
    /\ last.ctx \in {"dir", "file", "sweep"}
    /\ ~config.dry_run
    /\ faults = 0
    /\ SourceWasThere
    /\ LastTarget \in DOMAIN fsPre
    /\ \A n \in 1..config.max_collision_attempts : Candidate(n) \in DOMAIN fsPre

\* C17: when the original destination name and every candidate name exist,
\* the Mover tries exactly max_collision_attempts candidates, then reports
\* failure without raising, and the source remains in root.
C17_CeilingIsReportedFailure ==
    AllNamesTaken =>
        /\ last.fn # "raise"
        /\ last.tries = 1 + config.max_collision_attempts
        /\ last.p = NoPath
        /\ last.src \in DOMAIN fs
        /\ fs[last.src] = fsPre[last.src]

\* What the code guarantees: it holds for a directory whose names are all
\* taken by directories that are not empty, where the rename onto such a
\* directory raises FileExistsError (EEXIST).
C17_NonEmptyDirectoriesOnEEXIST ==
    (/\ AllNamesTaken
     /\ env.dir_clash = "EEXIST"
     /\ fsPre[last.src].kind = "dir"
     /\ HasChildren(fsPre, LastTarget)
     /\ \A n \in 1..config.max_collision_attempts : HasChildren(fsPre, Candidate(n)))
        => /\ last.fn # "raise"
           /\ last.tries = 1 + config.max_collision_attempts
           /\ last.p = NoPath
           /\ fs = fsPre

\* A file whose name and candidate name are taken replaces the old file.
C17_FileOverwrites ==
    /\ AllNamesTaken
    /\ fsPre[last.src].kind = "file"
    /\ last.tries = 1
    /\ last.p = LastTarget
    /\ last.src \notin DOMAIN fs


\* The delays double, starting from the configured base delay.
Doubling(slept) ==
    \A k \in 1..Len(slept) :
        slept[k] = IF k = 1 THEN config.retry_delay_seconds ELSE 2 * slept[k - 1]

\* The shape of a call c of the Mover whose first attempt failed with a
\* transient error: one sleep before each further attempt, at most
\* max_move_retries of them, ended by the first success or by the last
\* retry.
RetryShape(c) ==
    /\ Len(c.slept) <= config.max_move_retries
    /\ Doubling(c.slept)
    /\ c.tries = 1 + Len(c.slept)
    /\ config.max_move_retries = 0 => (c.tries = 1 /\ c.p = NoPath)
    /\ c.p # NoPath =>
          /\ Len(c.errs) = c.tries - 1
          /\ c.p = Join(c.dst_dir, Name(c.src))
          /\ c.p \in DOMAIN fs
          /\ c.src \notin DOMAIN fs
    /\ c.p = NoPath =>
          /\ Len(c.errs) = c.tries
          /\ Len(c.slept) = config.max_move_retries

\* C18: after a first attempt that fails with a transient error the Mover
\* makes at most max_move_retries further attempts, sleeps
\* retry_delay_seconds * 2^(k-1) before the k-th of them, returns the final
\* path at the first retry that succeeds, reports failure once all have
\* failed, and makes no retry when max_move_retries is 0.  The call is
\* looked at when it returns: to organize or the pairing (last), or to the
\* sidecar step after the primary has moved (cur).
C18_ExponentialBackoff ==
    /\ (/\ last.fn \in {"_move_to_dir", "_move_file_and_sidecar"}
        /\ last.side_tries = 0
        /\ last.errs # <<>>
        /\ last.errs[1] \in TRANSIENT_ERRNO_CODES) => RetryShape(last)
    /\ (/\ pc = "sidecar"
        /\ cur.errs # <<>>
        /\ cur.errs[1] \in TRANSIENT_ERRNO_CODES) => RetryShape(cur)

\* The second retry succeeds, after delays of one and two base delays.
C18_Witness ==
    /\ last.fn = "_move_to_dir"
    /\ config.max_move_retries = 2
    /\ last.errs = <<"EBUSY", "EBUSY">>
    /\ last.slept = <<config.retry_delay_seconds, 2 * config.retry_delay_seconds>>
    /\ last.tries = 3
    /\ last.p = LastTarget
    /\ fs[last.p] = fsPre[last.src]


\* Permission denied at attempt i of a call c ends the call: it is the last
\* attempt and the call reports failure.
PermissionIsTerminal(c) ==
    \A i \in 1..Len(c.errs) :
        c.errs[i] = "EACCES" => (i = Len(c.errs) /\ c.tries = i /\ c.p = NoPath)

\* C19: once any move attempt for an entry fails with permission denied, in
\* the first attempt or during the retries, the failure is reported and no
\* further attempt is made for that entry.  The call is looked at when it
\* returns (last), or when the primary of a pair returns to the sidecar step
\* (cur).
C19_PermissionIsTerminal ==
    /\ (last.fn \in {"_move_to_dir", "_move_file_and_sidecar"} /\ last.side_tries = 0)
          => PermissionIsTerminal(last)
    /\ pc = "sidecar" => PermissionIsTerminal(cur)

\* What the code guarantees: permission denied at the first attempt is
\* terminal.
C19_FirstAttemptTerminal ==
    (/\ last.fn \in {"_move_to_dir", "_move_file_and_sidecar"}
     /\ last.side_tries = 0
     /\ last.errs # <<>>
     /\ last.errs[1] = "EACCES") => (last.tries = 1 /\ last.p = NoPath /\ fs = fsPre)

\* Permission denied at the first retry is followed by a second retry, which
\* moves the entry.
C19_RetriedAfterPermission ==
    /\ last.fn = "_move_to_dir"
    /\ last.errs = <<"EBUSY", "EACCES">>
    /\ last.tries = 3
    /\ last.p = LastTarget
    /\ last.src \notin DOMAIN fs


\* An OS error that is no collision, no permission failure and not transient.
NonTransient(e) == ExcClass(e) = "OSError" /\ e \notin TRANSIENT_ERRNO_CODES

\* A non-transient error at attempt i of a call c ends the call with a
\* reported failure: it is the last attempt and no sleep follows it.
NonTransientIsTerminal(c) ==
    \A i \in 1..Len(c.errs) :
        NonTransient(c.errs[i]) =>
            /\ i = Len(c.errs)
            /\ c.tries = i
            /\ Len(c.slept) <= i - 1
            /\ c.p = NoPath

\* C20: when a move attempt fails with an OS error that is neither a
\* collision, nor permission denied, nor transient, the Mover reports failure
\* immediately: it sleeps no delay and makes no further attempt for that
\* entry.  The call is looked at when it returns or raises (last), or when
\* the primary of a pair returns to the sidecar step (cur).
C20_NonTransientIsImmediate ==
    /\ (/\ last.fn \in {"_move_to_dir", "_move_file_and_sidecar", "raise"}
        /\ last.side_tries = 0)
          => /\ NonTransientIsTerminal(last)
             /\ (\E i \in 1..Len(last.errs) : NonTransient(last.errs[i]))
                    => last.fn # "raise"
    /\ pc = "sidecar" => NonTransientIsTerminal(cur)

\* What the code guarantees: a non-transient error at the first attempt is
\* reported at once.
C20_FirstAttemptImmediate ==
    (/\ last.fn \in {"_move_to_dir", "_move_file_and_sidecar", "raise"}
     /\ last.side_tries = 0
     /\ last.errs # <<>>
     /\ NonTransient(last.errs[1]))
        => /\ last.fn # "raise"
           /\ last.tries = 1
           /\ last.slept = <<>>
           /\ last.p = NoPath
           /\ fs = fsPre

\* An input/output error at the first retry is followed by a sleep and a
\* second retry, which moves the entry.
C20_RetriedAfterNonTransient ==
    /\ last.fn = "_move_to_dir"
    /\ last.errs = <<"EBUSY", "EIO">>
    /\ last.tries = 3
    /\ Len(last.slept) = 2
    /\ last.p = LastTarget
    /\ last.src \notin DOMAIN fs


(***************************************************************************)
(* Properties of the compiled signature matcher.                           *)
(***************************************************************************)
\* The rule set of the input, which does not depend on the patterns.
RuleSet ==
    ValidateRules(arg.ext_to_dir, {DEFAULT_DIR_NAME} \cup Range(arg.dir_names), <<>>)

\* Pattern i of the input is for a normalised extension that has a rule.
Eligible(i) ==
    /\ SanitizeExt(arg.ext_to_re[i][1]) # <<>>
    /\ SanitizeExt(arg.ext_to_re[i][1]) \in DOMAIN RuleSet

\* Pattern i can be unescaped and encoded in latin-1.
Encodable(i) ==
    /\ ~UnescapeRaises(arg.ext_to_re[i][2])
    /\ ~Latin1Raises(Unescape(arg.ext_to_re[i][2]))

\* Pattern i is a valid sub-pattern.
Valid(i) ==
    /\ Eligible(i)
    /\ Encodable(i)
    /\ ~InvalidRegex(Unescape(arg.ext_to_re[i][2]))

Patterns == 1..Len(arg.ext_to_re)

\* The valid sub-patterns have group names of their own.
ValidNamesDistinct ==
    \A i, j \in Patterns :
        (Valid(i) /\ Valid(j) /\ i # j) =>
            GroupName(SanitizeExt(arg.ext_to_re[i][1]))
                # GroupName(SanitizeExt(arg.ext_to_re[j][1]))

\* Construction succeeded, the matcher is made of exactly the valid
\* sub-patterns, and the rule set is complete.
OnlyInvalidDropped ==
    /\ out[1].status = "ok"
    /\ out[1].ext_to_dir = RuleSet
    /\ out[1].has_re = (\E i \in Patterns : Valid(i))
    /\ Len(out[1].signatures_re) = Cardinality({i \in Patterns : Valid(i)})
    /\ \A i \in Patterns :
          Valid(i) <=>
              \E k \in 1..Len(out[1].signatures_re) :
                  out[1].signatures_re[k]
                      = [name |-> GroupName(SanitizeExt(arg.ext_to_re[i][1])),
                         pat |-> Unescape(arg.ext_to_re[i][2])]

\* C21: constructing a rule set in which one signature pattern is an invalid
\* regular expression or cannot be represented in the single-byte encoding
\* succeeds: exactly that sub-pattern is dropped, every other valid
\* sub-pattern is part of the compiled matcher, and all extension rules are
\* kept.
C21_InvalidPatternDropped ==
    (/\ op = "config"
     /\ out # <<>>
     /\ Cardinality({i \in Patterns : Eligible(i) /\ ~Valid(i)}) = 1
     /\ ValidNamesDistinct) => OnlyInvalidDropped

\* What the code guarantees: a pattern that cannot be unescaped or encoded
\* is dropped alone.
C21_UnencodablePatternDropped ==
    (/\ op = "config"
     /\ out # <<>>
     /\ Cardinality({i \in Patterns : Eligible(i) /\ ~Valid(i)}) = 1
     /\ \A i \in Patterns : (Eligible(i) /\ ~Valid(i)) => ~Encodable(i)
     /\ ValidNamesDistinct) => OnlyInvalidDropped

\* A pattern that is no regular expression, next to a valid one: the
\* constructor raises.
C21_InvalidRegexRaises ==
    /\ op = "config"
    /\ out # <<>>
    /\ Len(arg.ext_to_re) = 2
    /\ \E i \in Patterns : Valid(i)
    /\ \E i \in Patterns : Eligible(i) /\ Encodable(i) /\ ~Valid(i)
    /\ out[1].status = "raised"


\* Headers that the patterns of the input can match, and some they cannot.
SigHeaders ==
    {Unescape(q) : q \in CfgPatternPool} \cup {<<>>, <<"x89">>, <<"P", "N", "G">>}

\* Sub-pattern k of the matcher comes from a pattern of the input whose
\* normalised extension is e.
FromPattern(k, e) ==
    \E i \in Patterns :
        /\ SanitizeExt(arg.ext_to_re[i][1]) = e
        /\ out[1].signatures_re[k]
              = [name |-> GroupName(e), pat |-> Unescape(arg.ext_to_re[i][2])]

\* C22: every sub-pattern of the compiled matcher belongs to a normalised
\* extension that is a key of ext_to_dir, each sub-pattern has a group name
\* of its own, name_to_ext maps every group name to such a key, and so a
\* signature match resolves to the directory configured for the matched
\* extension, never to the fallback through a missing mapping.
C22_MatcherInvariant ==
    (op = "config" /\ out # <<>> /\ out[1].status = "ok" /\ out[1].has_re) =>
        LET g == out[1].signatures_re
            name_to_ext == out[1].name_to_ext
            ext_to_dir == out[1].ext_to_dir
        IN  /\ g # <<>>
            /\ \A k \in 1..Len(g) :
                  /\ g[k].name \in DOMAIN name_to_ext
                  /\ name_to_ext[g[k].name] \in DOMAIN ext_to_dir
                  /\ FromPattern(k, name_to_ext[g[k].name])
            /\ \A k, l \in 1..Len(g) : k # l => g[k].name # g[l].name
            /\ \A n \in DOMAIN name_to_ext :
                  /\ name_to_ext[n] \in DOMAIN ext_to_dir
                  /\ \E k \in 1..Len(g) : g[k].name = n
            /\ \A h \in SigHeaders :
                  LET m == ReMatch(g, h)
                      r == GetDstDirNameBySignature(out[1], h, FALSE)
                  IN  m # 0 =>
                        /\ ~r.raised
                        /\ r.opened
                        /\ r.dir = ext_to_dir[name_to_ext[g[m].name]]
                        /\ r.dir # DEFAULT_DIR_NAME

\* A matcher of two sub-patterns with group names of their own, and a header
\* that the first of them matches.
C22_Witness ==
    /\ op = "config"
    /\ out # <<>>
    /\ out[1].status = "ok"
    /\ Len(out[1].signatures_re) = 2
    /\ Cardinality(DOMAIN out[1].name_to_ext) = 2
    /\ \E h \in SigHeaders : ReMatch(out[1].signatures_re, h) = 1


\* The primary of a pair has moved and the move of its sidecar, a file that
\* was in root, is reported as failed.
SidecarFailed ==
    /\ PairReturned
    /\ last.p # NoPath
    /\ last.side_found
    /\ last.s = NoPath

\* C23: a failure to move the sidecar never undoes the primary move: the
\* primary stays at its final destination, the pairing returns (primary
\* final path, none), and the sidecar is left at its original path in root.
C23_SidecarFailureKeepsPrimary ==
    SidecarFailed =>
        /\ last.p \in DOMAIN fs
        /\ Parent(last.p) = last.dst_dir
        /\ fs[last.p] = fsPre[last.src]
        /\ last.src \notin DOMAIN fs
        /\ last.errs # <<>>
        /\ Len(last.side) = 1
        /\ last.side \in DOMAIN fs
        /\ fs[last.side] = fsPre[last.side]
        /\ \A q \in DOMAIN fs : fs[q].id = fsPre[last.side].id => q = last.side
        /\ last.side \in failed

\* The sidecar move fails with a transient error and the retries, which are
\* made for the path of the primary, fail too.
C23_Witness ==
    /\ SidecarFailed
    /\ last.errs[1] \in TRANSIENT_ERRNO_CODES
    /\ Len(last.slept) = config.max_move_retries
    /\ Len(last.slept) > 0
    /\ Len(last.errs) = 1 + Len(last.slept)
    /\ \A i \in 2..Len(last.errs) : last.errs[i] = "ENOENT"
    /\ fsPre[last.side].kind = "file"


\* _move_file_and_sidecar has returned for a primary that had, before the
\* call, no entry of any kind in root with its stem and a sidecar extension.
ReturnedWithoutSidecar ==
    /\ last.fn = "_move_file_and_sidecar"
    /\ \A q \in DOMAIN fsPre :
          (Len(q) = 1 /\ q # last.src /\ Stem(Name(q)) = Stem(Name(last.src)))
              => Lower(Suffix(Name(q))) \notin SIDECAR_EXTENSIONS

\* C24: when no file with the primary's stem and a sidecar extension exists,
\* the pairing returns the primary's result with no sidecar result, attempts
\* no sidecar move and reports no sidecar action or failure, with the
\* dry-run flag set or not.
C24_NoSidecarNoAction ==
    ReturnedWithoutSidecar =>
        /\ last.s = NoPath
        /\ last.side_tries = 0
        /\ last.side \notin failed
        /\ last.p # NoPath => Len(last.errs) = last.tries - 1

\* What the code guarantees: outside a dry run the sidecar result is none
\* and nothing but the primary has moved.
C24_NoSidecarResult ==
    (ReturnedWithoutSidecar /\ ~config.dry_run) =>
        /\ last.s = NoPath
        /\ \A q \in DOMAIN fs \cup DOMAIN fsPre :
              (q # last.src /\ q # last.p) =>
                  (q \in DOMAIN fs /\ q \in DOMAIN fsPre /\ fs[q] = fsPre[q])

\* In a dry run the pairing returns the path of a sidecar that does not
\* exist.
C24_DryRunReturnsSidecar ==
    /\ ReturnedWithoutSidecar
    /\ config.dry_run
    /\ last.p # NoPath
    /\ last.s # NoPath

\* Outside a dry run a rename of the missing sidecar is attempted and its
\* failure is reported.
C24_MissingSidecarFailure ==
    /\ ReturnedWithoutSidecar
    /\ ~config.dry_run
    /\ faults = 0
    /\ last.p # NoPath
    /\ last.side_tries = 1
    /\ last.errs = <<"ENOENT">>
    /\ last.side \in failed


\* The files of root, before the last call, with the stem of its source and
\* a sidecar extension.
SidecarFiles ==
    {q \in DOMAIN fsPre :
        /\ Len(q) = 1
        /\ fsPre[q].kind = "file"
        /\ q = Join(Parent(last.src), WithSuffix(Name(last.src), Suffix(Name(q))))
        /\ Suffix(Name(q)) \in SIDECAR_EXTENSIONS}

\* The primary of a pair has moved, with no error raised by the operating
\* system, and it had more than one sidecar in root.
PairedOfSeveral ==
    /\ PairReturned
    /\ last.p # NoPath
    /\ faults = 0
    /\ Cardinality(SidecarFiles) > 1

\* The same for the run as a whole: root held a.jpg with a.aae and a.xmp.
SeveralSidecarsAtStart ==
    /\ ~config.dry_run
    /\ faults = 0
    /\ \A q \in {<<N_a_jpg>>, <<N_a_aae>>, <<N_a_xmp>>} :
          q \in DOMAIN fs0 /\ fs0[q].kind = "file"

\* C25: the sidecar extensions are checked in a fixed order: with more than
\* one sidecar for a primary, the paired sidecar is the same whatever order
\* the iteration of _SIDECAR_EXTENSIONS takes in a run (it is determined by
\* the tree alone), one sidecar and no more moves with the primary, and the
\* orphan sweep takes the remaining one to the fallback directory.
C25_FixedOrderPairing ==
    /\ PairedOfSeveral =>
          /\ \A order \in Orders(SIDECAR_EXTENSIONS) :
                SidecarChoice(fsPre, last.src, order, 1).src_sidecar = last.side
          /\ last.s # NoPath
          /\ \A q \in SidecarFiles \ {last.side} : q \in DOMAIN fs /\ fs[q] = fsPre[q]
    /\ (pc = "done" /\ SeveralSidecarsAtStart) =>
          \E q \in {<<N_a_aae>>, <<N_a_xmp>>} :
              /\ \E r \in DOMAIN fs :
                    Parent(r) = Parent(CHOOSE t \in DOMAIN fs : fs[t].id = fs0[<<N_a_jpg>>].id)
                        /\ fs[r].id = fs0[q].id
              /\ \A o \in {<<N_a_aae>>, <<N_a_xmp>>} \ {q} : InFallback(fs0[o].id)

\* What the code guarantees: one sidecar, the first that exists in the
\* iteration order of the run, moves with the primary, and the sweep takes
\* the other to the fallback directory.
C25_PairingInOrderOfRun ==
    /\ PairedOfSeveral =>
          /\ SidecarChoice(fsPre, last.src, env.sidecar_order, 1).src_sidecar = last.side
          /\ last.s # NoPath
          /\ \A q \in SidecarFiles \ {last.side} : q \in DOMAIN fs /\ fs[q] = fsPre[q]
    /\ (pc = "done" /\ SeveralSidecarsAtStart) =>
          \E q \in {<<N_a_aae>>, <<N_a_xmp>>} :
              /\ \E r \in DOMAIN fs :
                    Parent(r) = Parent(CHOOSE t \in DOMAIN fs : fs[t].id = fs0[<<N_a_jpg>>].id)
                        /\ fs[r].id = fs0[q].id
              /\ \A o \in {<<N_a_aae>>, <<N_a_xmp>>} \ {q} : InFallback(fs0[o].id)

\* From root = {a.jpg, a.aae, a.xmp}, organize ends with a.xmp next to
\* a.jpg and a.aae in the fallback directory ...
C25_XmpPaired ==
    /\ pc = "done"
    /\ SeveralSidecarsAtStart
    /\ DOMAIN fs0 = {<<N_a_jpg>>, <<N_a_aae>>, <<N_a_xmp>>}
    /\ <<S_Images, N_a_xmp>> \in DOMAIN fs
    /\ <<S_Misc, N_a_aae>> \in DOMAIN fs

\* ... and, from the same tree, with a.aae next to a.jpg and a.xmp in the
\* fallback directory.
C25_AaePaired ==
    /\ pc = "done"
    /\ SeveralSidecarsAtStart
    /\ DOMAIN fs0 = {<<N_a_jpg>>, <<N_a_aae>>, <<N_a_xmp>>}
    /\ <<S_Images, N_a_aae>> \in DOMAIN fs
    /\ <<S_Misc, N_a_xmp>> \in DOMAIN fs


\* organize has returned from a run without dry_run in which the operating
\* system raised no error of its own, and every entry that root held has
\* left root or was not to be moved: no move of an entry failed.
DoneWithoutFailure ==
    /\ pc = "done"
    /\ ~config.dry_run
    /\ faults = 0
    /\ \A q \in failed : q \notin DOMAIN fs0

\* C26: the result of organize does not depend on the order in which root is
\* enumerated: with no move failures, the final tree is the tree that any
\* one enumeration of the same initial tree under the same rule set gives.
C26_OrderIndependent == DoneWithoutFailure => fs = OrganizeRun(fs0)

\* A sidecar of root has the stem of more than one primary.
SharedSidecar ==
    \E q, r1, r2 \in DOMAIN fs0 :
        /\ Len(q) = 1 /\ Len(r1) = 1 /\ Len(r2) = 1
        /\ r1 # r2
        /\ Lower(Suffix(Name(q))) \in SIDECAR_EXTENSIONS
        /\ Lower(Suffix(Name(r1))) \notin SIDECAR_EXTENSIONS
        /\ Lower(Suffix(Name(r2))) \notin SIDECAR_EXTENSIONS
        /\ Stem(Name(r1)) = Stem(Name(q))
        /\ Stem(Name(r2)) = Stem(Name(q))

\* What the code guarantees: the order does not matter when no sidecar is
\* shared by several primaries.
C26_OrderIndependentUnshared ==
    (DoneWithoutFailure /\ ~SharedSidecar) => fs = OrganizeRun(fs0)

\* From root = {a.jpg, a.txt, a.xmp}: a.jpg is listed before a.txt and takes
\* a.xmp along to Img ...
C26_SidecarWithJpg ==
    /\ DoneWithoutFailure
    /\ DOMAIN fs0 = {<<N_a_jpg>>, <<N_a_txt>>, <<N_a_xmp>>}
    /\ <<S_Images, N_a_jpg>> \in DOMAIN fs
    /\ <<S_Misc, N_a_txt>> \in DOMAIN fs
    /\ <<S_Images, N_a_xmp>> \in DOMAIN fs

\* ... and, from the same tree, a.txt is listed first and takes a.xmp along
\* to Misc.
C26_SidecarWithTxt ==
    /\ DoneWithoutFailure
    /\ DOMAIN fs0 = {<<N_a_jpg>>, <<N_a_txt>>, <<N_a_xmp>>}
    /\ <<S_Images, N_a_jpg>> \in DOMAIN fs
    /\ <<S_Misc, N_a_txt>> \in DOMAIN fs
    /\ <<S_Misc, N_a_xmp>> \in DOMAIN fs


\* A call made by the main pass is never for a name with a sidecar extension.
MainNeverMovesSidecar ==
    /\ cur.ctx \in {"file", "dir"} => Lower(Suffix(Name(cur.src))) \notin SIDECAR_EXTENSIONS
    /\ (last.ctx \in {"file", "dir"} /\ last.fn # "skip")
          => Lower(Suffix(Name(last.src))) \notin SIDECAR_EXTENSIONS

\* The files of root, at the start, that the main pass moves as primaries.
Primaries ==
    {r \in DOMAIN fs0 :
        /\ Len(r) = 1
        /\ fs0[r].kind = "file"
        /\ Name(r) \notin IGNORED_NAMES
        /\ Lower(Suffix(Name(r))) \notin SIDECAR_EXTENSIONS}

\* The files of root, at the start, with the stem of r and a sidecar
\* extension.
SidecarsAtStart(r) ==
    {q \in DOMAIN fs0 :
        /\ Len(q) = 1
        /\ fs0[q].kind = "file"
        /\ Stem(Name(q)) = Stem(Name(r))
        /\ Lower(Suffix(Name(q))) \in SIDECAR_EXTENSIONS}

\* Where the entry that was at q at the start is now.
Whereabouts(q) == {t \in DOMAIN fs : fs[t].id = fs0[q].id}

\* At the end of a run without errors of the operating system, the only
\* sidecar of a primary that has moved is in the directory of that primary.
OnlySidecarFollows ==
    (pc = "done" /\ ~config.dry_run /\ faults = 0) =>
        \A r \in Primaries :
            (/\ Cardinality(SidecarsAtStart(r)) = 1
             /\ r \notin DOMAIN fs
             /\ Whereabouts(r) # {})
                => \A q \in SidecarsAtStart(r) :
                      /\ q \notin DOMAIN fs
                      /\ \E t \in Whereabouts(r), u \in Whereabouts(q) :
                            Parent(u) = Parent(t)

\* The sweep is under way or over.
InSweep == pc \in {"sweep", "done"} \/ cur.ctx = "sweep"

\* Every entry of root that the main pass is to move has been tried: those
\* that are still in root are there because their move failed.
MainPassOver ==
    \A q \in DOMAIN fs :
        (/\ Len(q) = 1
         /\ GetDstDirName(config, [name |-> Name(q), kind |-> fs[q].kind,
                                   content |-> fs[q].content], FALSE).dir # NoPath)
            => q \in failed

\* C27: the orphan sweep starts only after every entry of the listing has
\* been processed by the main pass, the main pass never moves a file with a
\* sidecar extension on its own, and so, in every enumeration order, a
\* sidecar that is the only sidecar of a primary that moves ends in the
\* directory of the primary and is not taken to the fallback directory by
\* the sweep.
C27_TwoPhase ==
    /\ (InSweep /\ ~config.dry_run) => (MainPassOver /\ (pc = "sweep" => cur = NoCall))
    /\ pc = "main" => cur = NoCall
    /\ MainNeverMovesSidecar
    /\ OnlySidecarFollows

\* No sidecar of root has the stem of several primaries, and the sidecar
\* extensions are in lower case.
PlainSidecars ==
    /\ ~SharedSidecar
    /\ \A r \in Primaries : \A q \in SidecarsAtStart(r) :
          Suffix(Name(q)) \in SIDECAR_EXTENSIONS

\* What the code guarantees: the two phases, and the pairing when no other
\* primary has the stem of the sidecar and the sidecar extension is in lower
\* case.
C27_TwoPhaseUnshared ==
    /\ (InSweep /\ ~config.dry_run) => (MainPassOver /\ (pc = "sweep" => cur = NoCall))
    /\ pc = "main" => cur = NoCall
    /\ MainNeverMovesSidecar
    /\ PlainSidecars => OnlySidecarFollows

\* a.txt is listed before a.jpg and takes a.aae, the only sidecar of a.jpg,
\* along to Misc.
C27_SidecarTakenByOther ==
    /\ pc = "done"
    /\ ~config.dry_run
    /\ faults = 0
    /\ {q \in DOMAIN fs0 : Len(q) = 1} = {<<N_a_jpg>>, <<N_a_txt>>, <<N_a_aae>>}
    /\ <<S_Images, N_a_jpg>> \in Whereabouts(<<N_a_jpg>>)
    /\ <<S_Misc, N_a_aae>> \in Whereabouts(<<N_a_aae>>)


\* organize has returned from a run without dry_run and no move was
\* reported as failed.
ReturnedWithoutFailure ==
    /\ pc = "done"
    /\ ~config.dry_run
    /\ failed = {}

\* The regular files that are direct children of root in the tree f, the
\* reserved names apart.
RegularChildren(f) ==
    {q \in DOMAIN f :
        Len(q) = 1 /\ f[q].kind = "file" /\ Name(q) \notin IGNORED_NAMES}

\* The destination directories: the declared ones and the fallback.
Destinations ==
    {SplitPath(d) : d \in config.dir_names} \cup {SplitPath(DEFAULT_DIR_NAME)}

\* The file that was at q at the start is a file in one place, directly in a
\* destination directory, with the content it had.
InOneDestination(q) ==
    /\ Cardinality(Whereabouts(q)) = 1
    /\ \A t \in Whereabouts(q) :
          /\ Parent(t) \in Destinations
          /\ fs[t].kind = "file"
          /\ fs[t].content = fs0[q].content

\* C28: when organize returns from a run that is not dry and no move was
\* reported as failed, no regular file other than the reserved names is a
\* direct child of root, and every such file that root held at the start is
\* in exactly one destination directory with its content unchanged.
C28_Completeness ==
    ReturnedWithoutFailure =>
        /\ RegularChildren(fs) = {}
        /\ \A q \in RegularChildren(fs0) : InOneDestination(q)

\* What the code guarantees: the same when every directory above a
\* destination is declared.
C28_CompletenessDeclared == ParentsDeclared => C28_Completeness

\* With Img/Raw declared and Img not: a.sh went to Img/Raw with its sidecar,
\* then Img, a directory of root that is no destination, went to Misc.
C28_FileLeftOutsideDestinations ==
    /\ ReturnedWithoutFailure
    /\ <<N_a_sh>> \in DOMAIN fs0
    /\ <<S_Misc, S_Images, S_Raw, N_a_sh>> \in Whereabouts(<<N_a_sh>>)


\* The tree at the first loop of a second organize(root): _create_dirs has
\* run again.
SecondRunTree ==
    CreateDirs(config, fs, CHOOSE order \in Orders(config.dir_names) : TRUE).fs

\* A second organize(root) calls the Mover for no entry: the main pass skips
\* every entry of root and the sweep finds no orphan, so that nothing is
\* moved and no failure is reported.
NothingToMove ==
    \A e \in IterDir(SecondRunTree) :
        /\ GetDstDirName(config,
                         [name |-> e.name, kind |-> e.kind,
                          content |-> SecondRunTree[<<e.name>>].content],
                         FALSE).dir = NoPath
        /\ ~IsOrphanSidecar(e)

\* C29: organize is idempotent: after a run that is not dry has returned
\* with no failed move, a second organize(root) with the same rule set moves
\* nothing, reports no failure and leaves the tree under root as it is, for
\* every rule set, one with a nested destination whose parent is not
\* declared included.
C29_Idempotent ==
    ReturnedWithoutFailure => (NothingToMove /\ OrganizeRun(fs) = fs)

\* What the code guarantees: idempotence when every directory above a
\* destination is declared.
C29_IdempotentDeclared == ParentsDeclared => C29_Idempotent

\* With Img/Raw declared and Img not, the first run has left Img in Misc,
\* and the second would make root/Img anew and move it as well.
C29_SecondRunMovesImg ==
    /\ ReturnedWithoutFailure
    /\ <<S_Images>> \notin DOMAIN fs
    /\ <<S_Misc, S_Images, S_Raw>> \in DOMAIN fs
    /\ OrganizeRun(fs) # fs


\* More than the entries of a listing of root: those root holds at the start
\* and the directories that organize makes in root.
MaxListing == MaxRoot + MaxMoverRoot + 2

Larger(a, b) == IF a >= b THEN a ELSE b

\* The bounds on the move attempts of a call c of the Mover: the path is
\* that of the first error, the collision path sleeps never, and the retry
\* path makes one attempt per sleep.
BoundedCall(c) ==
    /\ c.ctx \in {"file", "dir", "sweep"} =>
          /\ c.side_tries = 0
          /\ (c.errs # <<>> /\ ExcClass(c.errs[1]) = "FileExistsError") =>
                /\ c.tries <= 1 + config.max_collision_attempts
                /\ c.slept = <<>>
          /\ (c.errs = <<>> \/ ExcClass(c.errs[1]) # "FileExistsError") =>
                /\ c.tries <= 1 + config.max_move_retries
                /\ c.tries <= 1 + Len(c.slept)
    /\ c.ctx = "sidecar" =>
          /\ c.side_tries <= 1
          /\ c.tries <= 1 + Len(c.slept)
          /\ Len(c.slept) <= 2 * config.max_move_retries

BoundedAttempts == BoundedCall(cur) /\ BoundedCall(last)

\* How far organize is from its end: the passes to come, the entries still
\* to process in the pass, and the attempts the call in progress may yet
\* make.
InCall == pc \in {"collide", "retry", "sidecar"}

PhaseRank ==
    CASE pc = "start" -> 3
      [] pc = "main" \/ (InCall /\ cur.ctx # "sweep") -> 2
      [] pc = "sweep" \/ (InCall /\ cur.ctx = "sweep") -> 1
      [] OTHER -> 0

CallRank ==
    CASE pc = "collide" ->
            (config.max_collision_attempts - cur.n + 1) + config.max_move_retries + 3
      [] pc = "retry" /\ cur.ctx # "sidecar" ->
            (config.max_move_retries - cur.n) + config.max_move_retries + 3
      [] pc = "sidecar" -> config.max_move_retries + 2
      [] pc = "retry" /\ cur.ctx = "sidecar" -> config.max_move_retries - cur.n
      [] OTHER -> 0

CallWidth ==
    Larger(config.max_collision_attempts, config.max_move_retries)
        + config.max_move_retries + 5

Measure ==
    PhaseRank * (MaxListing + 1) * CallWidth + Cardinality(todo) * CallWidth + CallRank

\* A listing is taken at the start of a pass only; otherwise a step of a
\* pass takes one entry out of what is left of the listing, and a call of
\* the Mover begins only for the entry taken out.
EachEntryOnce ==
    /\ todo' # todo =>
          \/ pc = "start" /\ pc' = "main"
          \/ pc = "main" /\ todo = {} /\ pc' = "sweep"
          \/ /\ pc \in {"main", "sweep"}
             /\ \E e \in todo :
                   /\ todo' = todo \ {e}
                   /\ <<e.name>> \in {cur'.src, last'.src}
    /\ (pc \in {"main", "sweep"} /\ pc' \in {"collide", "retry", "sidecar"}) =>
          \E e \in todo : todo' = todo \ {e} /\ cur'.src = <<e.name>>
    /\ pc \in {"collide", "retry", "sidecar"} => todo' = todo

\* C30: every call of the Mover ends after a bounded number of move
\* attempts, at most 1 + max_collision_attempts on the collision path and at
\* most 1 + max_move_retries on the retry path, the two paths never
\* combined; and organize always ends, taking each entry of the listing at
\* most once in the main pass and at most once in the sweep, whatever move
\* fails: each step brings organize nearer to its end, by a measure that
\* is never negative.
C30_Termination ==
    [][/\ BoundedAttempts
       /\ BoundedAttempts'
       /\ Cardinality(todo') <= MaxListing
       /\ Measure' < Measure
       /\ Measure' >= 0
       /\ EachEntryOnce]_vars

\* organize has returned from a run whose last call made every attempt the
\* retry path allows, and all of them failed.
C30_Witness ==
    /\ pc = "done"
    /\ last.fn = "_move_to_dir"
    /\ last.p = NoPath
    /\ config.max_move_retries >= 1
    /\ last.tries = 1 + config.max_move_retries
    /\ Len(last.slept) = config.max_move_retries

====
